---- MODULE Spec2Model ----
(***************************************************************************)
(* Model of the Ormanet upselling engine (app/engine.py) and of the local  *)
(* web server that drives it (app/server.py).                              *)
(*                                                                         *)
(* A number is written as a fraction [n |-> num, d |-> den] in lowest      *)
(* terms.  The engine computes with Python floats: its operators take the  *)
(* arithmetic of the call as an argument, either binary64 with rounding to *)
(* nearest, as the interpreter computes, or the exact arithmetic of        *)
(* fractions.  The server's requests are explored on fractions, and the    *)
(* requests that lead to an export on binary64.                            *)
(* Python strings are TLA+ strings; upper(), strip(), re.sub and the `in`  *)
(* substring test are computed character by character.  A value that may   *)
(* be None is a sequence: <<>> for None, <<v>> for the value v.  A dict is *)
(* a function, d.get(k, x) is Get(d, k, x); a dict whose iteration order   *)
(* matters is a sequence of <<key, value>> pairs.                          *)
(***************************************************************************)
EXTENDS Integers, Sequences, FiniteSets, TLC

VARIABLES
    ric_in,     \* arguments of a resolve_ric_values call
    ric_out,    \* <<>> before the call, <<result>> after it
    pipe_in,    \* arguments of an apply_pricing_pipeline call
    pipe_out,   \* <<>> before the call, <<result>> after it
    ups_in,     \* arguments of a compute_upsell call
    ups_out,    \* <<>> before the call, <<result>> after it
    fn_in,      \* the function called and its arguments, for a call of one function
    fn_out,     \* <<>> before the call, <<result>> after it
    shared,     \* the objects a caller passes to every engine call, and its logger
    calls,      \* the engine calls made so far: function, arguments, result
    State,      \* STATE, the server's AppState
    response,   \* the last response the server sent: route, status, error, rows
    requests,   \* the number of requests the server has handled
    OUTPUT_DIR  \* the output directory: None or the preventivo.xlsx last written

vars == <<ric_in, ric_out, pipe_in, pipe_out, ups_in, ups_out, fn_in, fn_out, shared, calls,
          State, response, requests, OUTPUT_DIR>>

ricVars == <<ric_in, ric_out>>

pipeVars == <<pipe_in, pipe_out>>

upsVars == <<ups_in, ups_out>>

fnVars == <<fn_in, fn_out>>

callVars == <<shared, calls>>

serverVars == <<State, response, requests, OUTPUT_DIR>>

(***************************************************************************)
(* Optional values and dicts                                               *)
(***************************************************************************)
None == <<>>

Some(v) == <<v>>

IsNone(o) == o = <<>>

Val(o) == o[1]

Get(d, k, default) == IF k \in DOMAIN d THEN d[k] ELSE default

EmptyDict == <<>>

\* a dict (or list) is falsy when it is empty
IsEmpty(d) == DOMAIN d = {}

\* With(v, LAMBDA x : e) is e with x standing for the value v: a local
\* variable that is assigned once. The value is computed first, as in an
\* assignment, and the body then reads it.
With(v, Op(_)) == CASE v = v -> Op(v)

(***************************************************************************)
(* Python floats without their rounding error: fractions                   *)
(***************************************************************************)
Abs(x) == IF x < 0 THEN -x ELSE x

RECURSIVE GCD(_, _)
GCD(a, b) == IF b = 0 THEN a ELSE GCD(b, a % b)

Frac(n, d) ==
    LET s == IF d < 0 THEN -1 ELSE 1
        g == GCD(Abs(n), Abs(d))
    IN  [n |-> (s * n) \div g, d |-> (s * d) \div g]

F(i) == [n |-> i, d |-> 1]

\* the operations cancel common factors before they multiply
FAdd(a, b) ==
    LET g == GCD(a.d, b.d)
    IN  Frac(a.n * (b.d \div g) + b.n * (a.d \div g), (a.d \div g) * b.d)

FNeg(a) == [n |-> -a.n, d |-> a.d]

FSub(a, b) == FAdd(a, FNeg(b))

FMul(a, b) ==
    LET g1 == IF a.n = 0 THEN b.d ELSE GCD(Abs(a.n), b.d)
        g2 == IF b.n = 0 THEN a.d ELSE GCD(Abs(b.n), a.d)
    IN  Frac((a.n \div g1) * (b.n \div g2), (a.d \div g2) * (b.d \div g1))

FDiv(a, b) == FMul(a, IF b.n < 0 THEN [n |-> -b.d, d |-> -b.n] ELSE [n |-> b.d, d |-> b.n])

FLt(a, b) ==
    LET g == GCD(a.d, b.d)
    IN  a.n * (b.d \div g) < b.n * (a.d \div g)

FLe(a, b) == ~FLt(b, a)

FMax(a, b) == IF FLt(a, b) THEN b ELSE a

FMin(a, b) == IF FLt(b, a) THEN b ELSE a

\* math.ceil
Ceil(a) == -((-a.n) \div a.d)

(***************************************************************************)
(* Naturals of any size                                                    *)
(***************************************************************************)
\* the sequence of their digits in base BASE, lowest
\* first, without leading zeros; <<>> is zero
BASE == 32768

RECURSIVE Trim(_)
Trim(a) == IF a # <<>> /\ a[Len(a)] = 0 THEN Trim(SubSeq(a, 1, Len(a) - 1)) ELSE a

RECURSIVE BigOf(_)
BigOf(n) == IF n = 0 THEN <<>> ELSE <<n % BASE>> \o BigOf(n \div BASE)

RECURSIVE IntOf(_)
IntOf(a) == IF a = <<>> THEN 0 ELSE a[1] + BASE * IntOf(Tail(a))

RECURSIVE CmpFrom(_, _, _)
CmpFrom(a, b, i) ==
    IF i = 0 THEN 0
    ELSE IF a[i] > b[i] THEN 1
    ELSE IF a[i] < b[i] THEN -1
    ELSE CmpFrom(a, b, i - 1)

BigCmp(a, b) ==
    IF Len(a) > Len(b) THEN 1
    ELSE IF Len(a) < Len(b) THEN -1
    ELSE CmpFrom(a, b, Len(a))

Digit(a, i) == IF i <= Len(a) THEN a[i] ELSE 0

RECURSIVE AddFrom(_, _, _, _)
AddFrom(a, b, i, carry) ==
    IF i > Len(a) /\ i > Len(b)
    THEN (IF carry = 0 THEN <<>> ELSE <<carry>>)
    ELSE With(Digit(a, i) + Digit(b, i) + carry, LAMBDA s :
             <<s % BASE>> \o AddFrom(a, b, i + 1, s \div BASE))

BigAdd(a, b) == AddFrom(a, b, 1, 0)

\* a - b for a >= b
RECURSIVE SubFrom(_, _, _, _)
SubFrom(a, b, i, borrow) ==
    IF i > Len(a) THEN <<>>
    ELSE With(a[i] - Digit(b, i) - borrow, LAMBDA s :
             <<s % BASE>> \o SubFrom(a, b, i + 1, IF s < 0 THEN 1 ELSE 0))

BigSub(a, b) == Trim(SubFrom(a, b, 1, 0))

\* a * k for a digit-sized k
RECURSIVE MulFrom(_, _, _, _)
MulFrom(a, k, i, carry) ==
    IF i > Len(a) THEN (IF carry = 0 THEN <<>> ELSE <<carry>>)
    ELSE With(a[i] * k + carry, LAMBDA s :
             <<s % BASE>> \o MulFrom(a, k, i + 1, s \div BASE))

MulDigit(a, k) == IF k = 0 THEN <<>> ELSE MulFrom(a, k, 1, 0)

RECURSIVE BigMul(_, _)
BigMul(a, b) ==
    IF a = <<>> \/ b = <<>> THEN <<>>
    ELSE BigAdd(MulDigit(a, b[1]),
                With(BigMul(a, Tail(b)), LAMBDA p : IF p = <<>> THEN <<>> ELSE <<0>> \o p))

RECURSIVE Pow2(_)
Pow2(k) == IF k = 0 THEN 1 ELSE 2 * Pow2(k - 1)

RECURSIVE BitsOf(_)
BitsOf(n) == IF n = 0 THEN 0 ELSE 1 + BitsOf(n \div 2)

BitLen(a) == IF a = <<>> THEN 0 ELSE 15 * (Len(a) - 1) + BitsOf(a[Len(a)])

Zeros(n) == [i \in 1..n |-> 0]

\* a * 2^k
BigShl(a, k) ==
    IF a = <<>> THEN <<>> ELSE Zeros(k \div 15) \o MulDigit(a, Pow2(k % 15))

\* a \div k for a digit-sized k, from digit i down, with the remainder carried
RECURSIVE DivFrom(_, _, _, _)
DivFrom(a, k, i, rem) ==
    IF i = 0 THEN <<>>
    ELSE With(rem * BASE + a[i], LAMBDA s :
             Append(DivFrom(a, k, i - 1, s % k), s \div k))

\* a \div 2^k
BigShr(a, k) ==
    IF k \div 15 >= Len(a) THEN <<>>
    ELSE With(SubSeq(a, k \div 15 + 1, Len(a)), LAMBDA top :
             Trim(DivFrom(top, Pow2(k % 15), Len(top), 0)))

\* the greatest digit q with b * q <= r, from the estimate qhat >= q
RECURSIVE FixDigit(_, _, _)
FixDigit(r, b, qhat) ==
    IF BigCmp(MulDigit(b, qhat), r) > 0 THEN FixDigit(r, b, qhat - 1) ELSE qhat

\* one digit of a long division by b, whose highest digit is at least BASE / 2
DivDigit(r, b) ==
    IF BigCmp(r, b) < 0 THEN 0
    ELSE With(IF Len(r) > Len(b) THEN r[Len(b) + 1] * BASE + r[Len(b)] ELSE r[Len(b)],
              LAMBDA top :
             With(top \div b[Len(b)], LAMBDA est :
                 FixDigit(r, b, IF est > BASE - 1 THEN BASE - 1 ELSE est)))

\* long division of the digits a[1..i] by b: [q, r]
RECURSIVE DivModFrom(_, _, _)
DivModFrom(a, b, i) ==
    IF i > Len(a) THEN [q |-> <<>>, r |-> <<>>]
    ELSE With(DivModFrom(a, b, i + 1), LAMBDA high :
         With(Trim(<<a[i]>> \o high.r), LAMBDA r :
         With(DivDigit(r, b), LAMBDA d :
             [q |-> <<d>> \o high.q, r |-> BigSub(r, MulDigit(b, d))])))

\* [q, r] of a by b, b > 0
BigDivMod(a, b) ==
    With((15 - (BitLen(b) % 15)) % 15, LAMBDA t :
    With(DivModFrom(BigShl(a, t), BigShl(b, t), 1), LAMBDA res :
        [q |-> Trim(res.q), r |-> BigShr(res.r, t)]))

(***************************************************************************)
(* Python floats as they are: binary64                                     *)
(***************************************************************************)
\* a finite float is sign * m * 2^e with 2^52 <= m < 2^53, or zero; every
\* operation returns the float nearest to the exact result, the even one on
\* a tie
Zero64 == [sign |-> 1, m |-> <<>>, e |-> 0]

\* q * 2^e rounded to 53 bits, to nearest and to even on a tie; sticky says
\* that the exact value is above q * 2^e
Round53(sign, q, sticky, e) ==
    IF q = <<>> THEN Zero64
    ELSE With(BitLen(q) - 53, LAMBDA k :
        IF k <= 0 THEN [sign |-> sign, m |-> BigShl(q, -k), e |-> e + k]
        ELSE With(BigShr(q, k), LAMBDA m :
             With(BigCmp(BigSub(q, BigShl(m, k)), BigShl(<<1>>, k - 1)), LAMBDA half :
             With(IF half > 0 \/ (half = 0 /\ (sticky \/ m[1] % 2 = 1))
                  THEN BigAdd(m, <<1>>) ELSE m,
                  LAMBDA up :
                 IF BitLen(up) > 53
                 THEN [sign |-> sign, m |-> BigShr(up, 1), e |-> e + k + 1]
                 ELSE [sign |-> sign, m |-> up, e |-> e + k]))))

\* sign * (n / d) * 2^e correctly rounded
RoundRatio(sign, n, d, e) ==
    IF n = <<>> THEN Zero64
    ELSE IF d = <<1>> THEN Round53(sign, n, FALSE, e)
    ELSE With(IF 55 + BitLen(d) - BitLen(n) > 0 THEN 55 + BitLen(d) - BitLen(n) ELSE 0,
              LAMBDA s :
         With(BigDivMod(BigShl(n, s), d), LAMBDA res :
             Round53(sign, res.q, res.r # <<>>, e - s)))

\* the literal n / d
Lit64(n, d) == RoundRatio(IF n < 0 THEN -1 ELSE 1, BigOf(IF n < 0 THEN -n ELSE n), BigOf(d), 0)

Mul64(a, b) == RoundRatio(a.sign * b.sign, BigMul(a.m, b.m), <<1>>, a.e + b.e)

Div64(a, b) == RoundRatio(a.sign * b.sign, a.m, b.m, a.e - b.e)

\* the exact sum of two values as sign * n * 2^e
Add64(a, b) ==
    IF a.m = <<>> THEN b
    ELSE IF b.m = <<>> THEN a
    ELSE With(IF a.e < b.e THEN a.e ELSE b.e, LAMBDA e :
         With(BigShl(a.m, a.e - e), LAMBDA x :
         With(BigShl(b.m, b.e - e), LAMBDA y :
             IF a.sign = b.sign THEN Round53(a.sign, BigAdd(x, y), FALSE, e)
             ELSE IF BigCmp(x, y) >= 0 THEN Round53(a.sign, BigSub(x, y), FALSE, e)
             ELSE Round53(b.sign, BigSub(y, x), FALSE, e))))

Neg64(a) == IF a.m = <<>> THEN a ELSE [a EXCEPT !.sign = -a.sign]

Sub64(a, b) == Add64(a, Neg64(b))

\* -1, 0, 1
Cmp64(a, b) ==
    IF a.m = <<>> /\ b.m = <<>> THEN 0
    ELSE IF a.m = <<>> THEN -b.sign
    ELSE IF b.m = <<>> THEN a.sign
    ELSE IF a.sign # b.sign THEN a.sign
    ELSE IF a.e # b.e THEN (IF a.e > b.e THEN a.sign ELSE -a.sign)
    ELSE a.sign * BigCmp(a.m, b.m)

\* math.ceil
Ceil64(a) ==
    IF a.m = <<>> THEN 0
    ELSE IF a.e >= 0 THEN a.sign * IntOf(BigShl(a.m, a.e))
    ELSE With(BigShr(a.m, -a.e), LAMBDA q :
             IF BigShl(q, -a.e) = a.m THEN a.sign * IntOf(q)
             ELSE IF a.sign = 1 THEN IntOf(q) + 1
             ELSE -IntOf(q))


IsB64(x) == "m" \in DOMAIN x

\* the float of a number written as the fraction n / d
B64(x) == IF IsB64(x) THEN x ELSE Lit64(x.n, x.d)

(***************************************************************************)
(* The arithmetic of a call                                                *)
(***************************************************************************)
\* Every operator of the engine that computes with floats takes its
\* arithmetic as the argument fl: fl["*", a, b] is a * b, fl["<", a, b] is
\* a < b, fl["max", a, b] is max(a, b), fl["ceil", a, F(0)] is math.ceil(a),
\* fl["+ 1e-9 <", a, b] is a + 1e-9 < b.
\* Exact computes on fractions and never rounds; Binary64 is the arithmetic
\* of the interpreter, on the floats of the fractions it is given.
Number == [n : Int, d : Int] \cup [sign : {-1, 1}, m : Seq(Nat), e : Int]

Operations == {"+", "-", "*", "/", "<", "<=", ">", ">=", "!=", "max", "min", "ceil", "floor", "+ 1e-9 <"}

ExactOp(op, a, b) ==
    CASE op = "+" -> FAdd(a, b)
      [] op = "-" -> FSub(a, b)
      [] op = "*" -> FMul(a, b)
      [] op = "/" -> FDiv(a, b)
      [] op = "<" -> FLt(a, b)
      [] op = "<=" -> FLe(a, b)
      [] op = ">" -> FLt(b, a)
      [] op = ">=" -> FLe(b, a)
      [] op = "!=" -> a # b
      [] op = "max" -> FMax(a, b)
      [] op = "min" -> FMin(a, b)
      [] op = "ceil" -> Ceil(a)
      [] op = "floor" -> -Ceil(FNeg(a))
      [] op = "+ 1e-9 <" -> With(FSub(b, a), LAMBDA over :
                                over.n > 0 /\ over.d \div over.n < 1000000000)

Binary64Op(op, a, b) ==
    With(B64(a), LAMBDA x :
    With(B64(b), LAMBDA y :
        CASE op = "+" -> Add64(x, y)
          [] op = "-" -> Sub64(x, y)
          [] op = "*" -> Mul64(x, y)
          [] op = "/" -> Div64(x, y)
          [] op = "<" -> Cmp64(x, y) < 0
          [] op = "<=" -> Cmp64(x, y) <= 0
          [] op = ">" -> Cmp64(x, y) > 0
          [] op = ">=" -> Cmp64(x, y) >= 0
          [] op = "!=" -> Cmp64(x, y) # 0
          [] op = "max" -> (IF Cmp64(y, x) > 0 THEN y ELSE x)
          [] op = "min" -> (IF Cmp64(y, x) < 0 THEN y ELSE x)
          [] op = "ceil" -> Ceil64(x)
          [] op = "floor" -> -Ceil64(Neg64(x))
          [] op = "+ 1e-9 <" -> Cmp64(Add64(x, Lit64(1, 1000000000)), y) < 0))

Exact == [p \in Operations \X Number \X Number |-> ExactOp(p[1], p[2], p[3])]

Binary64 == [p \in Operations \X Number \X Number |-> Binary64Op(p[1], p[2], p[3])]


(***************************************************************************)
(* Strings                                                                 *)
(***************************************************************************)
LowerAlphabet == "abcdefghijklmnopqrstuvwxyz"

UpperAlphabet == "ABCDEFGHIJKLMNOPQRSTUVWXYZ"

Char(s, i) == SubSeq(s, i, i)

\* str.upper() on one character: the letters a-z change, the rest stay
UpperTable ==
    [c \in {Char(LowerAlphabet, i) : i \in 1..Len(LowerAlphabet)} |->
        Char(UpperAlphabet, CHOOSE i \in 1..Len(LowerAlphabet) : Char(LowerAlphabet, i) = c)]

UpperChar(c) == IF c \in DOMAIN UpperTable THEN UpperTable[c] ELSE c

RECURSIVE Upper(_)
Upper(s) == IF s = "" THEN "" ELSE UpperChar(Char(s, 1)) \o Upper(SubSeq(s, 2, Len(s)))

IsSpace(c) == c \in {" ", "\t"}

RECURSIVE LStrip(_)
LStrip(s) ==
    IF s # "" /\ IsSpace(Char(s, 1)) THEN LStrip(SubSeq(s, 2, Len(s))) ELSE s

RECURSIVE RStrip(_)
RStrip(s) ==
    IF s # "" /\ IsSpace(Char(s, Len(s))) THEN RStrip(SubSeq(s, 1, Len(s) - 1)) ELSE s

Strip(s) == RStrip(LStrip(s))

\* re.sub(<one or more characters of seps>, " ", s)
RECURSIVE CollapseRuns(_, _, _)
CollapseRuns(s, seps, inRun) ==
    IF s = "" THEN ""
    ELSE LET c == Char(s, 1)
             rest == SubSeq(s, 2, Len(s))
         IN  IF c \in seps
             THEN (IF inRun THEN "" ELSE " ") \o CollapseRuns(rest, seps, TRUE)
             ELSE c \o CollapseRuns(rest, seps, FALSE)

RECURSIVE Remove(_, _)
Remove(s, ch) ==
    IF s = "" THEN ""
    ELSE (IF Char(s, 1) = ch THEN "" ELSE Char(s, 1)) \o Remove(SubSeq(s, 2, Len(s)), ch)

\* Python's `t in s`
Contains(s, t) ==
    \E i \in 1..(Len(s) - Len(t) + 1) : SubSeq(s, i, i + Len(t) - 1) = t

normalize_text(value) ==
    CollapseRuns(Strip(Upper(value)), {" ", "\t", "/", "_", "-"}, FALSE)

normalize_sku(value) ==
    CollapseRuns(Upper(Strip(value)), {" ", "\t"}, FALSE)

(***************************************************************************)
(* Engine constants                                                        *)
(***************************************************************************)
ABSOLUTE_MIN_MARKUP == F(11)

\* LISTINO_MAP.get(listino.upper().strip(), "RIV")
ListinoKey(listino) ==
    LET k == Strip(Upper(listino))
    IN  CASE k = "LISTINO RI+10%" -> "RIV+10"
          [] k = "LISTINO RI" -> "RIV"
          [] k = "LISTINO DI" -> "DIST"
          [] OTHER -> "RIV"

(***************************************************************************)
(* Category classifier                                                     *)
(***************************************************************************)
token_map ==
    << <<"BATTER", "BATTERIE">>, <<"CANCELL", "CANCELLERIA">>, <<"CARTA", "CARTA">>,
       <<"ROTOL", "ROTOLI TERMICI">>, <<"REMAN", "REMAN">>, <<"ORIG", "ORIGINALI">>,
       <<"STORAGE", "STORAGE">>, <<"TIMBR", "TIMBRI">> >>

\* the macro of the first configured rule found in the text, if any; mapping
\* is the sequence of <<macro, rules>> pairs in dict order
first_rule_macro(normalized, mapping) ==
    LET RuleHit(i) == \E j \in 1..Len(mapping[i][2]) :
                          Contains(normalized, normalize_text(mapping[i][2][j]))
    IN  IF \E i \in 1..Len(mapping) : RuleHit(i)
        THEN Some(mapping[CHOOSE i \in 1..Len(mapping) :
                             RuleHit(i) /\ \A k \in 1..(i - 1) : ~RuleHit(k)][1])
        ELSE None

\* the macro of the first built-in token found in the text, if any
first_token_macro(normalized) ==
    LET TokenHit(i) == Contains(normalized, token_map[i][1])
    IN  IF \E i \in 1..Len(token_map) : TokenHit(i)
        THEN Some(token_map[CHOOSE i \in 1..Len(token_map) :
                               TokenHit(i) /\ \A k \in 1..(i - 1) : ~TokenHit(k)][2])
        ELSE None

\* a classifier that tries the built-in tokens before the configured rules
map_macro_category_tokens_first(raw_category, mapping) ==
    LET normalized == normalize_text(raw_category)
        rule == first_rule_macro(normalized, mapping)
        token == first_token_macro(normalized)
    IN  IF ~IsNone(token) THEN Val(token)
        ELSE IF ~IsNone(rule) THEN Val(rule)
        ELSE "UNKNOWN"

\* a classifier that guesses a category where the code answers UNKNOWN
map_macro_category_guess(raw_category, mapping) ==
    LET normalized == normalize_text(raw_category)
        rule == first_rule_macro(normalized, mapping)
        token == first_token_macro(normalized)
    IN  IF ~IsNone(rule) THEN Val(rule)
        ELSE IF ~IsNone(token) THEN Val(token)
        ELSE "CARTA"

map_macro_category(raw_category, mapping) ==
    LET normalized == normalize_text(raw_category)
        rule == first_rule_macro(normalized, mapping)
        token == first_token_macro(normalized)
    IN  IF ~IsNone(rule) THEN Val(rule)
        ELSE IF ~IsNone(token) THEN Val(token)
        ELSE "UNKNOWN"

(***************************************************************************)
(* Policy resolver                                                         *)
(***************************************************************************)
\* list.sort(key=...) with a key of 0 or 1: stable, so the key-0 entries come
\* first and each group keeps its order
RECURSIVE SelectSeqBy(_, _, _)
SelectSeqBy(s, Key(_), k) ==
    IF s = <<>> THEN <<>>
    ELSE (IF Key(s[1]) = k THEN <<s[1]>> ELSE <<>>) \o SelectSeqBy(Tail(s), Key, k)

SortByScopeKey(items) ==
    LET Key(item) == IF Upper(Get(item, "scope", "")) \in {"ALL", "all"} THEN 0 ELSE 1
    IN  SelectSeqBy(items, Key, 0) \o SelectSeqBy(items, Key, 1)

\* the entries of item_exceptions that apply to the SKU and the price-list
RECURSIVE ScopedItems(_, _, _)
ScopedItems(item_exceptions, normalized_sku, listino_scope) ==
    IF item_exceptions = <<>> THEN <<>>
    ELSE LET entry == item_exceptions[1]
             rest == ScopedItems(Tail(item_exceptions), normalized_sku, listino_scope)
             scope == Remove(Upper(Get(entry, "scope", "all")), "+")
         IN  IF normalize_sku(Get(entry, "sku", "")) # normalized_sku THEN rest
             ELSE IF scope \in {"ALL", listino_scope} THEN <<entry>> \o rest
             ELSE rest

\* the sorted scoped_items list; item_exceptions is None or Some(list), sku
\* is None or Some(string)
scoped_items_of(item_exceptions, sku, listino_scope) ==
    IF ~IsNone(item_exceptions) /\ Val(item_exceptions) # <<>>
       /\ ~IsNone(sku) /\ Val(sku) # ""
    THEN SortByScopeKey(
             ScopedItems(Val(item_exceptions), normalize_sku(Val(sku)), listino_scope))
    ELSE <<>>

\* item_base: the last entry of the sorted list supplies the candidate
item_base_of(scoped_items) ==
    IF scoped_items # <<>>
    THEN Some(Get(scoped_items[Len(scoped_items)], "ric_base_override", F(0)))
    ELSE None

\* an override floor that replaces the default floor instead of raising it
ric_floor_of_replace(ric_floor_default, category_override) ==
    IF ~IsEmpty(category_override) /\ "ric_floor" \in DOMAIN category_override
    THEN [ric_floor |-> category_override.ric_floor, ric_floor_source |-> "category_override"]
    ELSE [ric_floor |-> ric_floor_default, ric_floor_source |-> "default"]

\* the floor after the category override: raised, never lowered
ric_floor_of(ric_floor_default, category_override) ==
    LET override_floor == Get(category_override, "ric_floor", ric_floor_default)
    IN  IF ~IsEmpty(category_override) /\ FLt(ric_floor_default, override_floor)
        THEN [ric_floor |-> override_floor, ric_floor_source |-> "category_override"]
        ELSE [ric_floor |-> ric_floor_default, ric_floor_source |-> "default"]

\* a merge in which the most specific layer present wins instead of the maximum
ric_base_of_specific(ric_floor, ric_base_default, category_base, item_base) ==
    IF ~IsNone(item_base) THEN Val(item_base)
    ELSE IF ~IsNone(category_base) THEN Val(category_base)
    ELSE FMax(ric_floor, ric_base_default)

\* max(candidates): the floor, the default baseline and the baselines of the
\* override layers that are present
ric_base_of(ric_floor, ric_base_default, category_base, item_base) ==
    LET c1 == FMax(ric_floor, ric_base_default)
        c2 == IF IsNone(category_base) THEN c1 ELSE FMax(c1, Val(category_base))
    IN  IF IsNone(item_base) THEN c2 ELSE FMax(c2, Val(item_base))

\* ric_overrides is None or Some(dict)
resolve_ric_values(macro, listino, sconti, ric_overrides, item_exceptions, sku) ==
    With(ListinoKey(listino), LAMBDA listino_key :
    With(Get(Get(sconti, macro, EmptyDict), listino_key, EmptyDict), LAMBDA defaults :
    With(FMax(ABSOLUTE_MIN_MARKUP, Get(defaults, "ric", ABSOLUTE_MIN_MARKUP)),
         LAMBDA ric_floor_default :
    With(IF ~IsNone(ric_overrides) /\ ~IsEmpty(Val(ric_overrides))
         THEN Get(Get(Val(ric_overrides), macro, EmptyDict), listino_key, EmptyDict)
         ELSE EmptyDict,
         LAMBDA category_override :
    With(ric_floor_of(ric_floor_default, category_override), LAMBDA floor :
    With(Get(defaults, "ric_base", ric_floor_default), LAMBDA ric_base_default :
    With(IF ~IsEmpty(category_override)
         THEN Some(FMax(floor.ric_floor,
                        Get(category_override, "ric_base", ric_base_default)))
         ELSE None,
         LAMBDA category_base :
    With(scoped_items_of(item_exceptions, sku,
                         IF listino_key = "RIV+10" THEN "RIV10" ELSE listino_key),
         LAMBDA scoped_items :
    With(item_base_of(scoped_items), LAMBDA item_base :
    With(ric_base_of(floor.ric_floor, ric_base_default, category_base, item_base),
         LAMBDA ric_base :
        [status |-> "ok",
         listino_key |-> listino_key,
         ric_floor |-> floor.ric_floor,
         ric_base |-> ric_base,
         ric_floor_source |-> floor.ric_floor_source,
         ric_base_source |->
             IF ~IsNone(item_base) /\ FLe(ric_base, Val(item_base)) THEN "item_exception"
             ELSE IF ~IsNone(category_base) /\ FLe(ric_base, Val(category_base))
             THEN "category_override"
             ELSE "default",
         item_exception_hit |-> scoped_items # <<>>]))))))))))

get_fixed_discount(macro, listino, sconti) ==
    Get(Get(Get(sconti, macro, EmptyDict), ListinoKey(listino), EmptyDict), "discount", F(0))

(***************************************************************************)
(* Pricing pipeline                                                        *)
(***************************************************************************)
\* a rounding to the step below: math.floor in place of math.ceil
round_up_to_step_down(value, step, fl) ==
    IF IsNone(step) \/ fl["<=", Val(step), F(0)] THEN value
    ELSE With(fl["/", F(1), Val(step)], LAMBDA factor :
             fl["/", F(fl["floor", fl["*", value, factor], F(0)]), factor])

\* step is None or Some(step)
round_up_to_step(value, step, fl) ==
    IF IsNone(step) \/ fl["<=", Val(step), F(0)] THEN value
    ELSE With(fl["/", F(1), Val(step)], LAMBDA factor :
             fl["/", F(fl["ceil", fl["*", value, factor], F(0)]), factor])

aggressivity_to_discount_percent(aggressivity, fl) == fl["max", F(0), fl["min", F(100), aggressivity]]

\* max_discount_real: the share of the baseline price above the floor price
max_discount_real_of(baseline_price, floor_price, fl) ==
    fl["max", F(0), IF fl["!=", baseline_price, F(0)]
               THEN fl["-", F(1), fl["/", floor_price, baseline_price]]
               ELSE F(0)]

\* the aggressivity's share of the cap as supplied, not raised to 0
requested_discount_of_raw_cap(aggressivity, max_discount_percent, max_discount_real_pct, discount_override, fl) ==
    LET aggressivity_value == aggressivity_to_discount_percent(aggressivity, fl)
        max_discount_ui ==
            IF ~IsNone(max_discount_percent) THEN Val(max_discount_percent)
            ELSE max_discount_real_pct
    IN  IF ~IsNone(discount_override) THEN Val(discount_override)
        ELSE fl["*", fl["/", aggressivity_value, F(100)], max_discount_ui]

\* requested_discount_pct: the aggressivity's share of the cap, or the override
requested_discount_of(aggressivity, max_discount_percent, max_discount_real_pct, discount_override, fl) ==
    LET aggressivity_value == aggressivity_to_discount_percent(aggressivity, fl)
        max_discount_ui ==
            fl["max", F(0), IF ~IsNone(max_discount_percent) THEN Val(max_discount_percent)
                       ELSE max_discount_real_pct]
    IN  IF ~IsNone(discount_override) THEN Val(discount_override)
        ELSE fl["*", fl["/", aggressivity_value, F(100)], max_discount_ui]

\* the candidate price raised to the floor, with the reason when it was below
floor_clamp(candidate_price, floor_price, fl) ==
    IF fl["<", candidate_price, floor_price]
    THEN [price |-> floor_price, clamp_reason |-> Some("MIN_RIC_FLOOR")]
    ELSE [price |-> candidate_price, clamp_reason |-> None]

\* rounding, and the floor rounded instead when the rounded price is below it
round_final(price, floor_price, rounding, clamp_reason, fl) ==
    With(round_up_to_step(price, rounding, fl), LAMBDA final_price :
        IF fl["<", final_price, floor_price]
        THEN [price |-> round_up_to_step(floor_price, rounding, fl),
              clamp_reason |-> Some("MIN_RIC_FLOOR")]
        ELSE [price |-> final_price, clamp_reason |-> clamp_reason])

apply_pricing_pipeline(lm, ric_base, ric_floor, aggressivity, max_discount_percent, rounding, discount_override, fl) ==
    With(fl["*", lm, fl["+", F(1), fl["/", ric_base, F(100)]]], LAMBDA baseline_price :
    With(fl["*", lm, fl["+", F(1), fl["/", ric_floor, F(100)]]], LAMBDA floor_price :
    With(max_discount_real_of(baseline_price, floor_price, fl), LAMBDA max_discount_real :
    With(fl["*", max_discount_real, F(100)], LAMBDA max_discount_real_pct :
    With(requested_discount_of(aggressivity, max_discount_percent, max_discount_real_pct,
                               discount_override, fl),
         LAMBDA requested_discount_pct :
    With(fl["min", requested_discount_pct, max_discount_real_pct], LAMBDA effective_discount_pct :
    With(floor_clamp(fl["*", baseline_price, fl["-", F(1), fl["/", effective_discount_pct, F(100)]]],
                     floor_price, fl),
         LAMBDA clamped :
    With(round_final(clamped.price, floor_price, rounding, clamped.clamp_reason, fl),
         LAMBDA final :
        [baseline_price |-> baseline_price,
         floor_price |-> floor_price,
         max_discount_real |-> max_discount_real,
         max_discount_real_pct |-> max_discount_real_pct,
         max_discount_effective |-> fl["/", max_discount_real_pct, F(100)],
         max_discount_effective_pct |-> max_discount_real_pct,
         desired_discount_pct |-> requested_discount_pct,
         effective_discount_pct |-> effective_discount_pct,
         candidate_price |-> clamped.price,
         final_price |-> final.price,
         final_ric |-> IF fl["!=", lm, F(0)] THEN fl["*", fl["-", fl["/", final.price, lm], F(1)], F(100)]
                       ELSE F(0),
         applied_discount_pct |->
             IF fl["!=", baseline_price, F(0)]
             THEN fl["*", fl["/", fl["-", baseline_price, final.price], baseline_price], F(100)]
             ELSE F(0),
         clamp_reason |-> final.clamp_reason]))))))))

(***************************************************************************)
(* Availability and base unit cost                                         *)
(***************************************************************************)
\* the arriving quantity counted under every cause code but DISPONIBILE
is_available_arriving(stock_item, causale, fl) ==
    IF causale # "DISPONIBILE"
    THEN IF fl["<", F(0), stock_item.disp] THEN [available |-> TRUE, date |-> None]
         ELSE IF fl["<", F(0), stock_item.disp_in_arrivo] /\ stock_item.data_arrivo # ""
         THEN [available |-> TRUE, date |-> Some(stock_item.data_arrivo)]
         ELSE [available |-> FALSE, date |-> None]
    ELSE [available |-> fl["<", F(0), stock_item.disp], date |-> None]

is_available(stock_item, causale, fl) ==
    IF causale = "PROGRAMMATO"
    THEN IF fl["<", F(0), stock_item.disp] THEN [available |-> TRUE, date |-> None]
         ELSE IF fl["<", F(0), stock_item.disp_in_arrivo] /\ stock_item.data_arrivo # ""
         THEN [available |-> TRUE, date |-> Some(stock_item.data_arrivo)]
         ELSE [available |-> FALSE, date |-> None]
    ELSE [available |-> fl["<", F(0), stock_item.disp], date |-> None]

\* the LM of the stock snapshot alone
resolve_lm_stock_only(stock_item, order_item, fl) ==
    IF ~IsNone(stock_item) /\ fl["<", F(0), Val(stock_item).lm]
    THEN [lm |-> Val(stock_item).lm, source |-> Some("stock")]
    ELSE [lm |-> F(0), source |-> None]

\* stock_item is None or Some(StockItem); the order item is always given here
resolve_lm(stock_item, order_item, fl) ==
    LET stock_lm == IF ~IsNone(stock_item) /\ fl["<", F(0), Val(stock_item).lm]
                    THEN Val(stock_item).lm ELSE F(0)
        order_lm == IF fl["<", F(0), order_item.lm] THEN order_item.lm ELSE F(0)
    IN  IF fl["<", F(0), stock_lm] THEN [lm |-> stock_lm, source |-> Some("stock")]
        ELSE IF fl["<", F(0), order_lm] THEN [lm |-> order_lm, source |-> Some("order")]
        ELSE [lm |-> F(0), source |-> None]

\* round_up(value, 2)
round_up2(value, fl) == fl["/", F(fl["ceil", fl["*", value, F(100)], F(0)]), F(100)]

(***************************************************************************)
(* Row assembly: the per-row overrides over the pipeline's price           *)
(***************************************************************************)
\* d.get(k): None when the key is missing
GetOpt(d, k) == IF k \in DOMAIN d THEN Some(d[k]) ELSE None

\* the promo price taken although the row is locked
alt_applies_locked(alt_selected, alt_available, lock_override) == alt_selected /\ alt_available

\* whether the promo price replaces the computed price
alt_applies(alt_selected, alt_available, lock_override) ==
    alt_selected /\ alt_available /\ ~lock_override

\* the price, clamp reason, floor and note of a row from the pipeline payload
\* computed for it and the row's override
apply_row_override(payload, override, alt_price, lm_value, ric_floor, rounding, fl) ==
    LET baseline_price == payload.baseline_price
        floor_price == payload.floor_price
        unit_price_override == GetOpt(override, "unit_price_override")
        lock_override == Get(override, "lock", FALSE)
        alt_selected == Get(override, "alt_selected", FALSE)
        alt_available == ~IsNone(alt_price) /\ fl["<", F(0), Val(alt_price)]
        AppliedPct(price) ==
            IF fl["!=", baseline_price, F(0)]
            THEN fl["*", fl["/", fl["-", baseline_price, price], baseline_price], F(100)]
            ELSE F(0)
        FinalRic(price) ==
            IF fl["!=", lm_value, F(0)] THEN fl["*", fl["-", fl["/", price, lm_value], F(1)], F(100)] ELSE F(0)
        computed ==
            [final_price |-> payload.final_price,
             desired_discount_pct |-> payload.desired_discount_pct,
             effective_discount_pct |-> payload.effective_discount_pct,
             applied_discount_pct |-> payload.applied_discount_pct,
             final_ric |-> payload.final_ric,
             clamp_reason |-> payload.clamp_reason,
             min_unit_price |-> Some(floor_price),
             required_ric |-> Some(ric_floor),
             note |-> IF alt_selected /\ ~alt_available THEN Some("ALT non disponibile")
                      ELSE None]
        Locked(alt_final, alt_applied) ==
            [final_price |-> alt_final,
             desired_discount_pct |-> alt_applied,
             effective_discount_pct |-> alt_applied,
             applied_discount_pct |-> alt_applied,
             final_ric |-> FinalRic(alt_final),
             clamp_reason |-> Some("ALT_LOCKED"),
             min_unit_price |-> None,
             required_ric |-> None,
             note |-> Some("ALT: prezzo promo fisso (non scontabile)")]
        Overridden(after_alt, unit_final) ==
            [after_alt EXCEPT !.final_price = unit_final.price,
                              !.clamp_reason = unit_final.clamp_reason,
                              !.min_unit_price = Some(floor_price),
                              !.required_ric = Some(ric_floor),
                              !.final_ric = FinalRic(unit_final.price),
                              !.applied_discount_pct = AppliedPct(unit_final.price),
                              !.note = None]
    IN  With(IF alt_applies(alt_selected, alt_available, lock_override)
             THEN With(round_up_to_step(Val(alt_price), rounding, fl), LAMBDA alt_final :
                      Locked(alt_final, fl["max", F(0), fl["min", F(100), AppliedPct(alt_final)]]))
             ELSE computed,
             LAMBDA after_alt :
        IF ~IsNone(unit_price_override)
        THEN With(floor_clamp(Val(unit_price_override), floor_price, fl), LAMBDA clamped :
                 Overridden(after_alt,
                            round_final(clamped.price, floor_price, rounding,
                                        clamped.clamp_reason, fl)))
        ELSE after_alt)

build_pricing_row(codice, categoria, lm, ric_base, ric_min, sconto_fisso, max_discount_percent, aggressivity, requested_discount_override, fl) ==
    With(fl["*", lm, fl["+", F(1), fl["/", ric_base, F(100)]]], LAMBDA prezzo_base :
    With(fl["*", lm, fl["+", F(1), fl["/", ric_min, F(100)]]], LAMBDA prezzo_min :
    With(IF fl["!=", prezzo_base, F(0)]
         THEN fl["max", F(0), fl["*", fl["/", fl["-", prezzo_base, prezzo_min], prezzo_base], F(100)]]
         ELSE F(0),
         LAMBDA cap_riga_percent :
    With(requested_discount_of(aggressivity, max_discount_percent, cap_riga_percent,
                               requested_discount_override, fl),
         LAMBDA sconto_richiesto :
    With(fl["min", sconto_richiesto, cap_riga_percent], LAMBDA sconto_effettivo :
        [codice |-> codice,
         categoria |-> categoria,
         lm |-> lm,
         ric_base |-> ric_base,
         ric_min |-> ric_min,
         sconto_fisso |-> sconto_fisso,
         prezzo_base |-> prezzo_base,
         prezzo_min |-> prezzo_min,
         sconto_richiesto |-> sconto_richiesto,
         sconto_cap |-> cap_riga_percent,
         sconto_effettivo |-> sconto_effettivo,
         prezzo_finale |-> fl["*", prezzo_base, fl["-", F(1), fl["/", sconto_effettivo, F(100)]]],
         fonte_cap |-> IF fl["+ 1e-9 <", cap_riga_percent, sconto_richiesto]
                       THEN Some("ric_min") ELSE None])))))

(***************************************************************************)
(* Candidate selector                                                      *)
(***************************************************************************)
\* The accumulator of one compute_upsell call: the lists add_suggestion
\* appends to, and the exception raised, if any.
EmptyAcc ==
    [status |-> "ok", error |-> "", suggestions |-> <<>>, pricing_rows |-> <<>>,
     trace_rows |-> <<>>, warnings |-> <<>>]

Codes(rows) == {rows[i].codice : i \in 1..Len(rows)}

\* a guard that never finds the SKU
already_suggested_never(suggestions, item) == FALSE

\* the "seen SKU" guard of add_suggestion
already_suggested(suggestions, item) == item.codice \in Codes(suggestions)

\* env holds the other arguments of compute_upsell: stock, client, sconti,
\* category_map, pricing, causale, overrides, ric_overrides, item_exceptions
add_suggestion(acc, item, reason, env, fl) ==
    IF acc.status # "ok" THEN acc
    ELSE IF already_suggested(acc.suggestions, item) THEN acc
    ELSE IF item.codice \notin DOMAIN env.stock THEN acc
    ELSE
    With(env.stock[item.codice], LAMBDA stock_item :
    With(is_available(stock_item, env.causale, fl), LAMBDA avail :
    IF ~avail.available THEN acc
    ELSE
    With(map_macro_category(item.categoria, env.category_map), LAMBDA macro :
    IF macro = "UNKNOWN"
    THEN [acc EXCEPT !.status = "raise",
                     !.error = "Categoria non riconosciuta: " \o item.categoria]
    ELSE
    With(resolve_ric_values(macro, env.client.listino, env.sconti, env.ric_overrides,
                            env.item_exceptions, Some(item.codice)),
         LAMBDA ric_values :
    With(get_fixed_discount(macro, env.client.listino, env.sconti), LAMBDA fixed_discount :
    With(resolve_lm(Some(stock_item), item, fl), LAMBDA lm :
    IF ~fl["<", F(0), lm.lm]
    THEN [acc EXCEPT !.warnings = Append(@, "LM mancante per SKU " \o item.codice)]
    ELSE
    With(apply_pricing_pipeline(lm.lm, ric_values.ric_base, ric_values.ric_floor,
             env.pricing.aggressivity, env.pricing.max_discount_percent,
             env.pricing.rounding, None, fl),
         LAMBDA first :
    With(Get(env.overrides, item.codice, EmptyDict), LAMBDA override :
    With(IF ~IsNone(GetOpt(override, "qty")) THEN fl["max", F(1), Val(GetOpt(override, "qty"))]
         ELSE fl["max", F(1), item.qty],
         LAMBDA qty :
    With(GetOpt(override, "discount_override"), LAMBDA discount_override :
    With(IF IsNone(discount_override) THEN first
         ELSE apply_pricing_pipeline(lm.lm, ric_values.ric_base, ric_values.ric_floor,
                  env.pricing.aggressivity, env.pricing.max_discount_percent,
                  env.pricing.rounding, discount_override, fl),
         LAMBDA payload :
    With(apply_row_override(payload, override, stock_item.prezzo_alt, lm.lm,
                            ric_values.ric_floor, env.pricing.rounding, fl),
         LAMBDA priced :
        [acc EXCEPT
            !.suggestions = Append(@,
                [codice |-> item.codice,
                 descrizione |-> item.descrizione,
                 qty |-> qty,
                 prezzo_unit |-> priced.final_price,
                 lm |-> lm.lm,
                 prezzo_alt |-> stock_item.prezzo_alt,
                 alt_available |-> ~IsNone(stock_item.prezzo_alt)
                                   /\ fl["<", F(0), Val(stock_item.prezzo_alt)],
                 alt_selected |-> Get(override, "alt_selected", FALSE),
                 macro_categoria |-> macro,
                 fixed_discount_percent |-> fixed_discount,
                 ric_base |-> ric_values.ric_base,
                 ric_base_source |-> ric_values.ric_base_source,
                 ric_floor_source |-> ric_values.ric_floor_source,
                 item_exception_hit |-> ric_values.item_exception_hit,
                 customer_base_price |-> first.baseline_price,
                 max_discount_real_pct |-> first.max_discount_real_pct,
                 desired_discount_pct |-> priced.desired_discount_pct,
                 applied_discount_pct |-> priced.applied_discount_pct,
                 final_ric_percent |-> priced.final_ric,
                 clamp_reason |-> priced.clamp_reason,
                 min_unit_price |-> priced.min_unit_price,
                 required_ric |-> priced.required_ric,
                 totale |-> round_up2(fl["*", priced.final_price, qty], fl),
                 disp |-> stock_item.disp,
                 disponibile_dal |-> avail.date,
                 note |-> priced.note]),
            !.pricing_rows = Append(@,
                build_pricing_row(item.codice, macro, lm.lm, ric_values.ric_base,
                    ric_values.ric_floor, fixed_discount, env.pricing.max_discount_percent,
                    env.pricing.aggressivity, discount_override, fl)),
            !.trace_rows = Append(@,
                [sku |-> item.codice,
                 categoria |-> item.categoria,
                 macro_categoria |-> macro,
                 selection_reason |-> reason,
                 available_date |-> avail.date,
                 lm |-> lm.lm,
                 lm_source |-> lm.source,
                 ric_base |-> ric_values.ric_base,
                 ric_floor |-> ric_values.ric_floor,
                 buffer_ric |-> fl["-", ric_values.ric_base, ric_values.ric_floor],
                 baseline_price |-> first.baseline_price,
                 floor_price |-> first.floor_price,
                 discount_override |-> discount_override,
                 unit_price_override |-> GetOpt(override, "unit_price_override"),
                 effective_discount_pct |-> priced.effective_discount_pct,
                 clamp_reason |-> priced.clamp_reason,
                 candidate_price |-> payload.candidate_price,
                 final_price |-> priced.final_price,
                 qty |-> qty])]))))))))))))

color_tokens == <<"CYAN", "MAGENTA", "YELLOW">>

HasColor(item) ==
    \E t \in 1..Len(color_tokens) : Contains(normalize_text(item.descrizione), color_tokens[t])

\* a match on the description alone, whatever the brand
IsBlackOf_any_brand(hist_item, item) ==
    Contains(normalize_text(hist_item.descrizione), "BLACK")

IsBlackOf(hist_item, item) ==
    hist_item.marca = item.marca /\ Contains(normalize_text(hist_item.descrizione), "BLACK")

\* first stage: for each colour line of the current order, the first
\* historical line of the same brand that is black
ColorStage(acc, items, historical_items, env, fl) ==
    LET Hit(item, i) == IsBlackOf(historical_items[i], item)
        Step(prev, item) ==
            IF prev.status # "ok" THEN prev
            ELSE IF HasColor(item) /\ \E i \in 1..Len(historical_items) : Hit(item, i)
            THEN add_suggestion(prev,
                     historical_items[CHOOSE i \in 1..Len(historical_items) :
                         Hit(item, i) /\ \A k \in 1..(i - 1) : ~Hit(item, k)],
                     "color_match_black", env, fl)
            ELSE prev
        after[n \in 0..Len(items)] ==
            IF n = 0 THEN acc ELSE With(after[n - 1], LAMBDA prev : Step(prev, items[n]))
    IN  after[Len(items)]

\* second stage: the current lines whose stock exceeds the ordered quantity
RestockStage(acc, items, env, fl) ==
    LET Step(prev, item) ==
            IF prev.status # "ok" THEN prev
            ELSE IF Len(prev.suggestions) >= 3 THEN prev
            ELSE IF item.codice \notin DOMAIN env.stock
                    \/ fl["<=", env.stock[item.codice].disp, item.qty]
            THEN prev
            ELSE add_suggestion(prev, item, "current_stock_available", env, fl)
        after[n \in 0..Len(items)] ==
            IF n = 0 THEN acc ELSE With(after[n - 1], LAMBDA prev : Step(prev, items[n]))
    IN  after[Len(items)]

\* the historical lines, in the current order or not
FallbackStage_any(acc, items, current_codes, historical_codes, env, fl) ==
    LET Step(prev, hist_item) ==
            IF prev.status # "ok" THEN prev
            ELSE IF Len(prev.suggestions) >= 3 THEN prev
            ELSE IF hist_item.codice \notin historical_codes
            THEN prev
            ELSE add_suggestion(prev, hist_item, "historical_fallback", env, fl)
        after[n \in 0..Len(items)] ==
            IF n = 0 THEN acc ELSE With(after[n - 1], LAMBDA prev : Step(prev, items[n]))
    IN  after[Len(items)]

\* third stage: the historical lines whose SKU is not in the current order
FallbackStage(acc, items, current_codes, historical_codes, env, fl) ==
    LET Step(prev, hist_item) ==
            IF prev.status # "ok" THEN prev
            ELSE IF Len(prev.suggestions) >= 3 THEN prev
            ELSE IF hist_item.codice \in current_codes
                    \/ hist_item.codice \notin historical_codes
            THEN prev
            ELSE add_suggestion(prev, hist_item, "historical_fallback", env, fl)
        after[n \in 0..Len(items)] ==
            IF n = 0 THEN acc ELSE With(after[n - 1], LAMBDA prev : Step(prev, items[n]))
    IN  after[Len(items)]

\* the validation pass over the accepted rows
ValidationErrors(rows, fl) ==
    LET Fails(row) == ~IsNone(row.min_unit_price)
                      /\ fl["<", row.prezzo_unit, Val(row.min_unit_price)]
        failing == SelectSeq(rows, Fails)
    IN  [i \in 1..Len(failing) |->
            [sku |-> failing[i].codice,
             min_unit_price |-> Val(failing[i].min_unit_price),
             provided_price |-> failing[i].prezzo_unit,
             required_ric |-> failing[i].required_ric]]

\* suggestions[:3]
FirstThree(s) == SubSeq(s, 1, IF Len(s) < 3 THEN Len(s) ELSE 3)

\* the three stages in order; the accumulator they leave
run_stages(current_items, historical_items, env, fl) ==
    With(RestockStage(ColorStage(EmptyAcc, current_items, historical_items, env, fl),
                      current_items, env, fl),
         LAMBDA a2 :
        IF a2.status = "ok" /\ Len(a2.suggestions) < 3
        THEN FallbackStage(a2, historical_items, Codes(current_items),
                           Codes(historical_items), env, fl)
        ELSE a2)

compute_upsell(current_items, historical_items, env, fl) ==
    With(run_stages(current_items, historical_items, env, fl), LAMBDA a3 :
    With(ValidationErrors(a3.suggestions, fl), LAMBDA errors :
        IF a3.status # "ok"
        THEN [status |-> "raise", error |-> a3.error]
        ELSE [status |-> "ok",
              rows |-> FirstThree(a3.suggestions),
              pricing_rows |-> FirstThree(a3.pricing_rows),
              trace |-> [listino_key |-> ListinoKey(env.client.listino),
                         causale |-> env.causale,
                         rows |-> a3.trace_rows],
              validation |-> [ok |-> errors = <<>>, errors |-> errors],
              warnings |-> a3.warnings]))

(***************************************************************************)
(* Inputs of the policy resolver                                           *)
(***************************************************************************)
\* a category discount table (config/sconti_2026.json): macro -> price-list
\* key -> {ric, ric_base, discount}; some pairs are missing, one floor is
\* below the absolute minimum, one entry has no ric_base, one has a baseline
\* below its floor
SCONTI ==
    ("ORIGINALI" :> (("RIV" :> [ric |-> F(11), ric_base |-> F(20), discount |-> F(0)])
                     @@ ("DIST" :> [ric |-> F(30), ric_base |-> F(20), discount |-> F(0)])))
    @@ ("CARTA" :> (("RIV" :> [ric |-> F(5)])
                    @@ ("RIV+10" :> [ric |-> F(17), ric_base |-> F(20), discount |-> F(3)])))

RicMacros == {"ORIGINALI", "CARTA", "BATTERIE"}

Listini == {"LISTINO RI", " listino di", "LISTINO RI+10%"}

HasDefault(sconti, macro, listino) ==
    macro \in DOMAIN sconti /\ ListinoKey(listino) \in DOMAIN sconti[macro]

MarkupValues == {F(5), F(28)}

OverrideEntries ==
    {[ric_floor |-> a] : a \in MarkupValues}
    \cup {[ric_base |-> b] : b \in MarkupValues}
    \cup {[ric_floor |-> a, ric_base |-> b] : a \in MarkupValues, b \in MarkupValues}

\* override tables holding one entry, for the pair of the call
RicOverridesFor(macro, listino) ==
    {None} \cup {Some(macro :> (ListinoKey(listino) :> e)) : e \in OverrideEntries}

ExceptionEntries ==
    {[sku |-> "k1 ", scope |-> sc, ric_base_override |-> v] :
        sc \in {"all", "RIV"}, v \in {F(22), F(25)}}
    \cup {[sku |-> "k1 ", ric_base_override |-> F(22)],
          [sku |-> "K1", scope |-> "RIV+10", ric_base_override |-> F(25)],
          [sku |-> "K1", scope |-> "ALL", ric_base_override |-> F(5)],
          [sku |-> "K2", scope |-> "all", ric_base_override |-> F(40)]}

MaxExceptions == 2

RECURSIVE SeqsUpTo(_, _)
SeqsUpTo(S, n) ==
    IF n = 0 THEN {<<>>}
    ELSE LET shorter == SeqsUpTo(S, n - 1)
         IN  shorter \cup {Append(s, x) : s \in shorter, x \in S}

RaiseDeltas == {F(20)}

\* the override table with the floor of the (macro, price-list) entry raised
RaiseFloor(ric_overrides, macro, listino, delta) ==
    LET lk == ListinoKey(listino)
    IN  IF IsNone(ric_overrides) THEN ric_overrides
        ELSE LET e == Val(ric_overrides)[macro][lk]
             IN  IF "ric_floor" \in DOMAIN e
                 THEN Some(macro :> (lk :> [e EXCEPT !.ric_floor = FAdd(@, delta)]))
                 ELSE ric_overrides

RicIdle == ric_in = None /\ ric_out = None

PipeIdle == pipe_in = None /\ pipe_out = None

UpsIdle == ups_in = None /\ ups_out = None

FnIdle == fn_in = None /\ fn_out = None

CallIdle == shared = None /\ calls = None

ServerIdle == State = None /\ response = None /\ requests = 0 /\ OUTPUT_DIR = None

RicInit ==
    /\ \E m \in RicMacros, l \in Listini :
         \E o \in RicOverridesFor(m, l), x \in SeqsUpTo(ExceptionEntries, MaxExceptions) :
            ric_in = [macro |-> m, listino |-> l, sconti |-> SCONTI, ric_overrides |-> o,
                      item_exceptions |-> Some(x), sku |-> Some("K1")]
    /\ ric_out = None
    /\ PipeIdle
    /\ UpsIdle
    /\ ServerIdle
    /\ FnIdle
    /\ CallIdle

\* one call of resolve_ric_values with the drawn arguments, beside the
\* default-only call and the call with the override floor raised
ResolveCall ==
    /\ ric_out = None
    /\ \E delta \in RaiseDeltas :
          ric_out' = Some(
            [res |-> resolve_ric_values(ric_in.macro, ric_in.listino, ric_in.sconti,
                                        ric_in.ric_overrides, ric_in.item_exceptions, ric_in.sku),
             res_default |-> resolve_ric_values(ric_in.macro, ric_in.listino, ric_in.sconti,
                                                None, None, ric_in.sku),
             res_raised |-> resolve_ric_values(ric_in.macro, ric_in.listino, ric_in.sconti,
                                RaiseFloor(ric_in.ric_overrides, ric_in.macro, ric_in.listino, delta),
                                ric_in.item_exceptions, ric_in.sku),
             item_base |-> item_base_of(scoped_items_of(ric_in.item_exceptions, ric_in.sku,
                              IF ListinoKey(ric_in.listino) = "RIV+10" THEN "RIV10"
                              ELSE ListinoKey(ric_in.listino))),
             delta |-> delta])
    /\ UNCHANGED <<ric_in, pipeVars, upsVars, serverVars, fnVars, callVars>>

RicNext == ResolveCall

SpecRic == RicInit /\ [][RicNext]_vars

(***************************************************************************)
(* Inputs of the pricing pipeline                                          *)
(***************************************************************************)
\* resolved (floor, baseline) markups: baseline >= floor >= 11
RicPairs == {<<F(11), F(20)>>, <<F(11), F(11)>>, <<F(17), F(20)>>, <<F(28), F(35)>>}

LmValues == {F(100), Frac(33, 100)}

Aggressivities == {F(-10), F(0), F(50), F(100), F(150)}

DiscountCaps == {None, Some(F(-5)), Some(F(0)), Some(F(4)), Some(F(10))}

Roundings == {None, Some(F(0)), Some(Frac(1, 100)), Some(Frac(5, 100))}

DiscountOverrides == {None, Some(F(-5)), Some(F(3)), Some(F(50))}

PipeInit ==
    /\ pipe_in \in [lm : LmValues, ric : RicPairs, aggressivity : Aggressivities,
                    max_discount_percent : DiscountCaps, rounding : Roundings,
                    discount_override : DiscountOverrides]
    /\ pipe_out = None
    /\ RicIdle
    /\ UpsIdle
    /\ ServerIdle
    /\ FnIdle
    /\ CallIdle

PipelineCall ==
    /\ pipe_out = None
    /\ pipe_out' = Some(apply_pricing_pipeline(pipe_in.lm, pipe_in.ric[2], pipe_in.ric[1],
                            pipe_in.aggressivity, pipe_in.max_discount_percent,
                            pipe_in.rounding, pipe_in.discount_override, Binary64))
    /\ UNCHANGED <<pipe_in, ricVars, upsVars, serverVars, fnVars, callVars>>

PipeNext == PipelineCall

SpecPipe == PipeInit /\ [][PipeNext]_vars

(***************************************************************************)
(* Inputs of the selector                                                  *)
(***************************************************************************)
\* config/category_map.json: macro -> rules, in file order
CATEGORY_MAP ==
    << <<"REMAN", <<"rigenerat", "compatibil">> >>, <<"ORIGINALI", <<"toner-orig">> >> >>

OrderItem(marca, categoria, codice, descrizione, qty, lm) ==
    [marca |-> marca, categoria |-> categoria, codice |-> codice,
     descrizione |-> descrizione, qty |-> qty, lm |-> lm]

StockItem(categoria, marca, codice, descrizione, disp, disp_in_arrivo, data_arrivo, lm, prezzo_alt) ==
    [categoria |-> categoria, marca |-> marca, codice |-> codice,
     descrizione |-> descrizione, disp |-> disp, disp_in_arrivo |-> disp_in_arrivo,
     data_arrivo |-> data_arrivo, lm |-> lm, prezzo_alt |-> prezzo_alt]

\* lines of current orders: two colour lines of different brands and a line
\* of a category no rule and no token matches
CurrentLines ==
    {OrderItem("ACME", "Originali", "CY1", "Ink cyan", F(2), F(0)),
     OrderItem("BETA", "Originali", "YE1", "INK_YELLOW", F(2), F(8)),
     OrderItem("ACME", "Varie", "UN1", "Toner", F(2), F(9))}

\* lines of historical orders: a black line per brand, a plain line, a
\* black line of an unrecognised category and a line of a SKU that is also
\* ordered now
HistoricalLines ==
    {OrderItem("ACME", "Originali", "CY1", "Ink cyan", F(1), F(0)),
     OrderItem("ACME", "Originali", "BA1", "INK-BLACK", F(1), F(7)),
     OrderItem("BETA", "toner orig.", "BB1", "ink black xl", F(1), F(13)),
     OrderItem("GAMMA", "Carta A4", "PA1", "Risma", F(4), F(0)),
     OrderItem("ACME", "Misc", "HU1", "Black ribbon", F(1), F(6))}

\* everything on hand
STOCK_FULL ==
    ("CY1" :> StockItem("Originali", "ACME", "CY1", "Ink cyan", F(5), F(0), "", F(10), None))
    @@ ("YE1" :> StockItem("Originali", "BETA", "YE1", "Ink yellow", F(5), F(0), "", F(10), None))
    @@ ("UN1" :> StockItem("Varie", "ACME", "UN1", "Toner", F(5), F(0), "", F(30), None))
    @@ ("BA1" :> StockItem("Originali", "ACME", "BA1", "Ink black", F(3), F(0), "", F(12), None))
    @@ ("BB1" :> StockItem("Originali", "BETA", "BB1", "Ink black XL", F(3), F(0), "", F(14), None))
    @@ ("PA1" :> StockItem("Carta", "GAMMA", "PA1", "Risma A4", F(4), F(0), "", Frac(33, 100),
                           Some(Frac(1, 2))))
    @@ ("HU1" :> StockItem("Varie", "ACME", "HU1", "Black ribbon", F(1), F(0), "", F(6), None))

\* a thin stock: BA1 is not listed, YE1 and BB1 are only arriving, CY1 and UN1
\* do not exceed the ordered quantity, BB1 and PA1 have no LM, HU1 is out of
\* stock
STOCK_THIN ==
    ("CY1" :> StockItem("Originali", "ACME", "CY1", "Ink cyan", F(2), F(0), "", F(10), None))
    @@ ("YE1" :> StockItem("Originali", "BETA", "YE1", "Ink yellow", F(0), F(4), "2026-01-10",
                           F(10), None))
    @@ ("UN1" :> StockItem("Varie", "ACME", "UN1", "Toner", F(1), F(0), "", F(30), None))
    @@ ("BB1" :> StockItem("Originali", "BETA", "BB1", "Ink black XL", F(0), F(3), "2026-01-12",
                           F(0), None))
    @@ ("PA1" :> StockItem("Carta", "GAMMA", "PA1", "Risma A4", F(4), F(0), "", F(0), None))
    @@ ("HU1" :> StockItem("Varie", "ACME", "HU1", "Black ribbon", F(0), F(0), "", F(6), None))

Stocks == {STOCK_FULL, STOCK_THIN}

Causali == {"DISPONIBILE", "PROGRAMMATO"}

ClientRI == [client_id |-> "100", ragione_sociale |-> "Rossi", listino |-> "LISTINO RI"]

\* PricingParams()
DefaultPricing ==
    [aggressivity |-> F(0), max_discount_percent |-> Some(F(10)), buffer_ric |-> F(2),
     rounding |-> Some(Frac(1, 100))]

MaxCurrent == 2

MaxHistory == 2

Env(stock, client, pricing, causale, overrides, ric_overrides, item_exceptions) ==
    [stock |-> stock, client |-> client, sconti |-> SCONTI, category_map |-> CATEGORY_MAP,
     pricing |-> pricing, causale |-> causale, overrides |-> overrides,
     ric_overrides |-> ric_overrides, item_exceptions |-> item_exceptions]

\* selection inputs: orders and histories over the lines above
SelectionInputs ==
    {[current_items |-> c, historical_items |-> h, arithmetic |-> "exact",
      env |-> Env(st, ClientRI, DefaultPricing, ca, EmptyDict, None, None)] :
        c \in SeqsUpTo(CurrentLines, MaxCurrent), h \in SeqsUpTo(HistoricalLines, MaxHistory),
        st \in Stocks, ca \in Causali}

\* a row override: each key present or absent
RowOverrides ==
    {q @@ d @@ u @@ l @@ a :
        q \in {EmptyDict, "qty" :> F(3)},
        d \in {EmptyDict, "discount_override" :> F(3), "discount_override" :> F(50)},
        u \in {EmptyDict, "unit_price_override" :> Frac(1, 10), "unit_price_override" :> F(200)},
        l \in {EmptyDict, "lock" :> TRUE},
        a \in {EmptyDict, "alt_selected" :> TRUE}}

PriceLine == OrderItem("GAMMA", "Carta A4", "PA1", "Risma", F(2), F(0))

PriceStock(lm, prezzo_alt) ==
    "PA1" :> StockItem("Carta", "GAMMA", "PA1", "Risma A4", F(4), F(0), "", lm, prezzo_alt)

\* pricing inputs: one restock line under every override and pricing knob
PricingInputs ==
    {[current_items |-> <<PriceLine>>, historical_items |-> <<>>, arithmetic |-> "exact",
      env |-> Env(PriceStock(lm, alt),
                  ClientRI,
                  [aggressivity |-> ag, max_discount_percent |-> cap, rounding |-> ro],
                  "DISPONIBILE", "PA1" :> ov, None, None)] :
        lm \in LmValues, alt \in {None, Some(Frac(1, 5)), Some(F(150))},
        ag \in {F(0), F(50), F(100)}, cap \in {None, Some(F(4))},
        ro \in {None, Some(Frac(1, 100)), Some(Frac(5, 100))}, ov \in RowOverrides}

FloatLine == OrderItem("ACME", "Originali", "CY1", "Ink cyan", F(2), F(0))

FloatStock(lm, prezzo_alt) ==
    "CY1" :> StockItem("Originali", "ACME", "CY1", "Ink cyan", F(5), F(0), "", lm, prezzo_alt)

\* a unit cost with the policy overrides it is priced under: 7.00 under the
\* default markups (floor 11, baseline 20), 24.75 under markups raised to
\* floor 28 and baseline 35
FloatCosts ==
    {[lm |-> F(7), ric_overrides |-> None],
     [lm |-> Frac(2475, 100),
      ric_overrides |-> Some("ORIGINALI" :> ("RIV" :> [ric_floor |-> F(28), ric_base |-> F(35)]))]}

FloatOverrides ==
    {d @@ u @@ l @@ a :
        d \in {EmptyDict, "discount_override" :> F(3)},
        u \in {EmptyDict, "unit_price_override" :> Frac(1, 10),
               "unit_price_override" :> Frac(3168, 100), "unit_price_override" :> F(200)},
        l \in {EmptyDict, "lock" :> TRUE},
        a \in {EmptyDict, "alt_selected" :> TRUE}}

\* pricing inputs computed as the interpreter computes them: one restock
\* line under the overrides, two rounding steps and two aggressivities
FloatInputs ==
    {[current_items |-> <<FloatLine>>, historical_items |-> <<>>, arithmetic |-> "binary64",
      env |-> Env(FloatStock(co.lm, alt),
                  ClientRI,
                  [aggressivity |-> ag, max_discount_percent |-> None, rounding |-> ro],
                  "DISPONIBILE", "CY1" :> ov, co.ric_overrides, None)] :
        co \in FloatCosts, alt \in {None, Some(Frac(99, 100))},
        ag \in {F(0), F(100)},
        ro \in {Some(Frac(1, 100)), Some(Frac(3, 100))}, ov \in FloatOverrides}

\* the number of colour lines of the largest order of colour lines
MaxColours == 4

\* the n-th colour line, of a brand of its own, and the black line of that
\* brand in the history
ColourLine(n) ==
    OrderItem("BRAND" \o ToString(n), "Originali", "CL" \o ToString(n), "Ink cyan", F(2), F(0))

BlackLine(n) ==
    OrderItem("BRAND" \o ToString(n), "Originali", "BK" \o ToString(n), "Ink black", F(1), F(7))

\* the black SKUs on hand, the colour SKUs with no more than ordered
COLOUR_STOCK ==
    [codice \in {BlackLine(n).codice : n \in 1..MaxColours}
                \cup {ColourLine(n).codice : n \in 1..MaxColours} |->
        LET n == CHOOSE k \in 1..MaxColours : codice \in {BlackLine(k).codice, ColourLine(k).codice}
        IN  IF codice = BlackLine(n).codice
            THEN StockItem("Originali", BlackLine(n).marca, codice, "Ink black", F(3), F(0), "",
                           F(12), None)
            ELSE StockItem("Originali", ColourLine(n).marca, codice, "Ink cyan", F(2), F(0), "",
                           F(10), None)]

\* orders of colour lines of different brands over a history with a black
\* line of each brand
ColourInputs ==
    {[current_items |-> [i \in 1..n |-> ColourLine(i)],
      historical_items |-> [i \in 1..k |-> BlackLine(i)], arithmetic |-> "exact",
      env |-> Env(COLOUR_STOCK, ClientRI, DefaultPricing, ca, EmptyDict, None, None)] :
        n \in 0..MaxColours, k \in 0..MaxColours, ca \in Causali}

UpsInit ==
    /\ ups_in \in SelectionInputs \cup PricingInputs \cup FloatInputs \cup ColourInputs
    /\ ups_out = None
    /\ RicIdle
    /\ PipeIdle
    /\ ServerIdle
    /\ FnIdle
    /\ CallIdle

\* the arithmetic of the call
UpsArith == IF ups_in.arithmetic = "binary64" THEN Binary64 ELSE Exact

UpsellCall ==
    /\ ups_out = None
    /\ ups_out' = Some(compute_upsell(ups_in.current_items, ups_in.historical_items,
                                      ups_in.env, UpsArith))
    /\ UNCHANGED <<ups_in, ricVars, pipeVars, serverVars, fnVars, callVars>>

UpsNext == UpsellCall

SpecUpsell == UpsInit /\ [][UpsNext]_vars

(***************************************************************************)
(* Calls of one function                                                   *)
(***************************************************************************)
\* prices and quantities to round: multiples of the steps below as decimals,
\* values between multiples, zero and a negative value
RoundValues ==
    {F(0), Frac(7, 100), Frac(99, 100), Frac(11, 10), Frac(1234, 1000), F(3), Frac(783, 100),
     Frac(3168, 100), F(111), Frac(-5, 2)}

RoundSteps ==
    {None, Some(F(-1)), Some(F(0)), Some(Frac(1, 100)), Some(Frac(3, 100)), Some(Frac(5, 100)),
     Some(Frac(1, 4)), Some(F(1))}

RoundInputs == {[fn |-> "round_up_to_step", value |-> v, step |-> st] : v \in RoundValues, st \in RoundSteps}

\* stock items by quantity on hand, quantity arriving and arrival date,
\* under each cause code
AvailableInputs ==
    {[fn |-> "is_available",
      stock_item |-> StockItem("Originali", "ACME", "CY1", "Ink cyan", disp, arr, data, F(10), None),
      causale |-> ca] :
        disp \in {F(-1), F(0), Frac(1, 2), F(3)}, arr \in {F(-2), F(0), F(4)},
        data \in {"", "2026-01-10"}, ca \in {"DISPONIBILE", "IN ARRIVO", "PROGRAMMATO"}}

\* category maps as the file can hold them, macro -> rules in file order
CategoryMaps ==
    { <<>>,
      CATEGORY_MAP,
      << <<"CARTA", <<"carta">> >>, <<"ROTOLI TERMICI", <<"Carta_Termica", "rotoli">> >> >>,
      << <<"ROTOLI TERMICI", <<"Carta_Termica", "rotoli">> >>, <<"CARTA", <<"carta">> >> >>,
      << <<"REMAN", <<"orig compat", "rigenerat">> >>, <<"STORAGE", <<"usb">> >>,
         <<"TIMBRI", <<"">> >> >> }

\* category texts as the order and stock files hold them
CategoryTexts ==
    {"", "  ", "Carta termica", "carta/TERMICA  rotoli", "Toner-Orig compatibili",
     "ORIG-compat", "Toner originali", "usb storage", "Batterie e cancelleria",
     "Timbri REMAN", "rigenerati", "Varie", "ROTOLI", "Buste", "cancell. carta",
     "Penne USB", "toner_orig", "Originali", "Rotoli carta", "Nastri", "Etichette",
     "Storage/Orig"}

MapInputs ==
    {[fn |-> "map_macro_category", raw_category |-> t, mapping |-> m] :
        t \in CategoryTexts, m \in CategoryMaps}

FnInit ==
    /\ fn_in \in RoundInputs \cup AvailableInputs \cup MapInputs
    /\ fn_out = None
    /\ RicIdle
    /\ PipeIdle
    /\ UpsIdle
    /\ ServerIdle
    /\ CallIdle

RoundCall ==
    /\ fn_out = None
    /\ fn_in.fn = "round_up_to_step"
    /\ fn_out' = Some(round_up_to_step(fn_in.value, fn_in.step, Binary64))
    /\ UNCHANGED <<fn_in, ricVars, pipeVars, upsVars, serverVars, callVars>>

AvailableCall ==
    /\ fn_out = None
    /\ fn_in.fn = "is_available"
    /\ fn_out' = Some(is_available(fn_in.stock_item, fn_in.causale, Binary64))
    /\ UNCHANGED <<fn_in, ricVars, pipeVars, upsVars, serverVars, callVars>>

MapCall ==
    /\ fn_out = None
    /\ fn_in.fn = "map_macro_category"
    /\ fn_out' = Some(map_macro_category(fn_in.raw_category, fn_in.mapping))
    /\ UNCHANGED <<fn_in, ricVars, pipeVars, upsVars, serverVars, callVars>>

FnNext == RoundCall \/ AvailableCall \/ MapCall

SpecFn == FnInit /\ [][FnNext]_vars

(***************************************************************************)
(* Engine calls in sequence over shared objects                            *)
(***************************************************************************)
MaxCalls == 3

\* the objects of the caller: the stock snapshot, the policy tables, the
\* per-row override map, and the logger every compute_upsell call is given
SharedObjects ==
    {[stock |-> FloatStock(F(7), Some(Frac(99, 100))), sconti |-> SCONTI,
      overrides |-> "CY1" :> ov, ric_overrides |-> None, item_exceptions |-> None,
      log |-> <<>>] :
        ov \in {"unit_price_override" :> Frac(1, 10), "alt_selected" :> TRUE}}

PipelineArgs ==
    {[lm |-> F(7), ric_base |-> F(20), ric_floor |-> F(11), aggressivity |-> ag,
      max_discount_percent |-> None, rounding |-> Some(Frac(1, 100)),
      discount_override |-> None] : ag \in {F(0), F(100)}}

UpsellArgs ==
    {[current_items |-> <<FloatLine>>, historical_items |-> <<>>, causale |-> ca,
      pricing |-> [aggressivity |-> F(100), max_discount_percent |-> None,
                   rounding |-> Some(Frac(1, 100))]] : ca \in {"DISPONIBILE", "PROGRAMMATO"}}

\* a call that empties the override map it was given
upsell_call_consuming(objects, res) == [objects EXCEPT !.overrides = EmptyDict]

\* the shared objects after a compute_upsell call: the call reads the stock,
\* the tables and the override map and writes one record to the logger
upsell_call(objects, res) ==
    [objects EXCEPT !.log = Append(@, IF res.status = "ok" THEN "Computed upsell rows"
                                      ELSE "Categoria non riconosciuta")]

CallInit ==
    /\ shared \in SharedObjects
    /\ calls = <<>>
    /\ RicIdle
    /\ PipeIdle
    /\ UpsIdle
    /\ FnIdle
    /\ ServerIdle

PipelineAgain ==
    /\ Len(calls) < MaxCalls
    /\ \E a \in PipelineArgs :
          calls' = Append(calls,
              [fn |-> "apply_pricing_pipeline", args |-> a,
               out |-> apply_pricing_pipeline(a.lm, a.ric_base, a.ric_floor, a.aggressivity,
                           a.max_discount_percent, a.rounding, a.discount_override, Binary64)])
    /\ UNCHANGED <<shared, ricVars, pipeVars, upsVars, fnVars, serverVars>>

UpsellAgain ==
    /\ Len(calls) < MaxCalls
    /\ \E a \in UpsellArgs :
          With(compute_upsell(a.current_items, a.historical_items,
                   [stock |-> shared.stock, client |-> ClientRI, sconti |-> shared.sconti,
                    category_map |-> CATEGORY_MAP, pricing |-> a.pricing,
                    causale |-> a.causale, overrides |-> shared.overrides,
                    ric_overrides |-> shared.ric_overrides,
                    item_exceptions |-> shared.item_exceptions], Binary64),
               LAMBDA res :
                   /\ calls' = Append(calls, [fn |-> "compute_upsell", args |-> a, out |-> res])
                   /\ shared' = upsell_call(shared, res))
    /\ UNCHANGED <<ricVars, pipeVars, upsVars, fnVars, serverVars>>

CallNext == PipelineAgain \/ UpsellAgain

SpecCalls == CallInit /\ [][CallNext]_vars

(***************************************************************************)
(* Promo suggestions                                                       *)
(***************************************************************************)
\* sorted(entries, key=(k1, k2), reverse=True) over records [k1, k2, v]:
\* descending and stable, entries of equal key keep their order
RECURSIVE SortDescending(_)
SortDescending(entries) ==
    IF entries = <<>> THEN <<>>
    ELSE LET Gt(a, b) == a.k1 > b.k1 \/ (a.k1 = b.k1 /\ FLt(b.k2, a.k2))
             IsTop(i) == /\ \A j \in 1..Len(entries) : ~Gt(entries[j], entries[i])
                         /\ \A j \in 1..(i - 1) : Gt(entries[i], entries[j])
             top == CHOOSE i \in 1..Len(entries) : IsTop(i)
         IN  <<entries[top]>> \o
             SortDescending(SubSeq(entries, 1, top - 1) \o
                            SubSeq(entries, top + 1, Len(entries)))

\* the keys of a counting dict filled from the sequence, in insertion order
RECURSIVE DistinctInOrder(_)
DistinctInOrder(keys) ==
    IF keys = <<>> THEN <<>>
    ELSE LET front == DistinctInOrder(SubSeq(keys, 1, Len(keys) - 1))
             last == keys[Len(keys)]
         IN  IF \E i \in 1..Len(front) : front[i] = last THEN front ELSE Append(front, last)

\* the five most counted keys
TopFive(keys) ==
    With(DistinctInOrder(keys), LAMBDA distinct :
    With(SortDescending([i \in 1..Len(distinct) |->
             [k1 |-> Cardinality({j \in 1..Len(keys) : keys[j] = distinct[i]}),
              k2 |-> F(0), v |-> distinct[i]]]),
         LAMBDA sorted :
        {sorted[i].v : i \in 1..(IF Len(sorted) < 5 THEN Len(sorted) ELSE 5)}))

\* stock_items is the stock dict as the sequence of its values
compute_alt_suggestions(stock_items, storico_items, current_rows, category_map, limit) ==
    IF limit <= 0 THEN <<>>
    ELSE
    LET MacroOf(item) == map_macro_category(item.categoria, category_map)
        Eligible(item) ==
            /\ item.codice \notin Codes(current_rows)
            /\ item.codice \notin Codes(storico_items)
            /\ ~IsNone(item.prezzo_alt)
            /\ FLt(F(0), Val(item.prezzo_alt))
            /\ MacroOf(item) # "UNKNOWN"
    IN  With([i \in 1..Len(storico_items) |-> MacroOf(storico_items[i])], LAMBDA macros :
        With([i \in 1..Len(storico_items) |-> storico_items[i].marca], LAMBDA brands :
        With(TopFive(SelectSeq(macros, LAMBDA m : m # "UNKNOWN")), LAMBDA top_categories :
        With(TopFive(SelectSeq(brands, LAMBDA b : b # "")), LAMBDA top_brands :
        With(SelectSeq(stock_items, Eligible), LAMBDA eligible :
        With(SortDescending([i \in 1..Len(eligible) |->
                 [k1 |-> (IF MacroOf(eligible[i]) \in top_categories THEN 2 ELSE 0)
                         + (IF eligible[i].marca \in top_brands THEN 1 ELSE 0),
                  k2 |-> FAdd(eligible[i].disp, eligible[i].disp_in_arrivo),
                  v |-> eligible[i]]]),
             LAMBDA sorted :
            [i \in 1..(IF Len(sorted) < limit THEN Len(sorted) ELSE limit) |->
                [codice |-> sorted[i].v.codice,
                 descrizione |-> sorted[i].v.descrizione,
                 categoria |-> sorted[i].v.categoria,
                 marca |-> sorted[i].v.marca,
                 prezzo_alt |-> Val(sorted[i].v.prezzo_alt),
                 qty |-> F(1)]]))))))

(***************************************************************************)
(* The server: the files it reads                                          *)
(***************************************************************************)
CAUSALI == <<"DISPONIBILE", "IN ARRIVO", "PROGRAMMATO">>

ALT_SUGGESTION_LIMIT == 3

\* import/CLIENTI.xlsx as load_clients returns it
CLIENTI_XLSX ==
    <<ClientRI, [client_id |-> "200", ragione_sociale |-> "Bianchi", listino |-> "LISTINO DI"]>>

\* import/STOCK.xlsx as load_stock returns it, in row order: three promo
\* SKUs, ZZ1 of a category no rule and no token matches, PB1 with no more on
\* hand than UPSELL-3 orders
STOCK_XLSX ==
    <<StockItem("Originali", "ACME", "CY1", "Ink cyan", F(5), F(0), "", F(7), None),
      StockItem("Originali", "ACME", "BA1", "Ink black", F(3), F(0), "", F(12), None),
      StockItem("Carta", "GAMMA", "PA1", "Risma A4", F(4), F(0), "", Frac(33, 100),
                Some(Frac(1, 2))),
      StockItem("Varie", "ACME", "ZZ1", "Gadget", F(5), F(0), "", F(4), Some(F(9))),
      StockItem("Carta", "GAMMA", "PB1", "Risma A3", F(2), F(0), "", F(1), Some(F(3))),
      StockItem("Varie", "ACME", "UN1", "Toner", F(5), F(0), "", F(30), None)>>

\* the order files of the orders directory as load_orders returns them
ORDERS_DIR ==
    ("UPSELL-1.xlsx" :> <<OrderItem("ACME", "Originali", "CY1", "Ink cyan", F(2), F(0))>>)
    @@ ("UPSELL-2.xlsx" :> <<OrderItem("ACME", "Varie", "UN1", "Toner", F(2), F(9))>>)
    @@ ("UPSELL-3.xlsx" :> <<OrderItem("GAMMA", "Carta A4", "PB1", "Risma A3", F(2), F(0))>>)
    @@ ("STORICO-1.xlsx" :> <<OrderItem("ACME", "Originali", "BA1", "INK-BLACK", F(1), F(7))>>)
    @@ ("STORICO-2.xlsx" :> <<OrderItem("GAMMA", "Carta A4", "PA1", "Risma", F(4), F(0))>>)
    @@ ("STORICO-3.xlsx" :> <<>>)
    @@ ("STORICO-4.xlsx" :> <<>>)
    @@ ("STORICO-5.xlsx" :>
            <<OrderItem("ACME", "Toner rigenerati", "BA1", "Ink black", F(1), F(0))>>)

RECURSIVE load_orders(_)
load_orders(paths) ==
    IF paths = <<>> THEN <<>> ELSE ORDERS_DIR[Head(paths)] \o load_orders(Tail(paths))

\* the stock dict of the engine from the loaded rows
StockDict(stock) ==
    [c \in Codes(stock) |-> stock[CHOOSE i \in 1..Len(stock) : stock[i].codice = c]]

DropKey(d, k) == [x \in DOMAIN d \ {k} |-> d[x]]

(***************************************************************************)
(* The server: AppState and the request handlers                           *)
(***************************************************************************)
\* AppState(); the logger, the field mapping and the copy block (the text
\* rendering of the stored rows) are left out
AppState ==
    [clients |-> <<>>,
     stock |-> <<>>,
     histories |-> <<>>,
     current_order |-> None,
     causale |-> CAUSALI[1],
     selected_client_id |-> None,
     upsell_rows |-> <<>>,
     pricing_rows |-> <<>>,
     pricing |-> DefaultPricing,
     per_row_overrides |-> EmptyDict,
     trace |-> EmptyDict,
     validation |-> [ok |-> TRUE, errors |-> <<>>],
     warnings |-> <<>>,
     ric_overrides |-> EmptyDict,
     ric_override_errors |-> <<>>,
     ric_item_exceptions |-> <<>>,
     alt_mode |-> FALSE,
     alt_suggestions |-> <<>>,
     extra_rows |-> <<>>,
     stock_alt_count |-> 0]

\* the errors of one entry of the override table; the amounts the messages
\* quote are left out
override_errors(sconti, macro, listino_key, values) ==
    IF macro \notin DOMAIN sconti
       \/ listino_key \notin DOMAIN sconti[macro]
       \/ IsEmpty(sconti[macro][listino_key])
    THEN <<"Override non valida: " \o macro \o "/" \o listino_key
             \o " non trovato in SCONTI 2026">>
    ELSE With(FMax(ABSOLUTE_MIN_MARKUP, Get(sconti[macro][listino_key], "ric", F(0))),
              LAMBDA ric_floor_min :
         With(Get(values, "ric_floor", ric_floor_min), LAMBDA ric_floor :
         With(Get(values, "ric_base", ric_floor), LAMBDA ric_base :
             (IF FLt(ric_floor, ric_floor_min)
              THEN <<"Override " \o macro \o "/" \o listino_key \o ": RIC sotto il minimo">>
              ELSE <<>>)
             \o (IF FLt(ric_base, ric_floor)
                 THEN <<"Override " \o macro \o "/" \o listino_key \o ": RIC.BASE < RIC">>
                 ELSE <<>>))))

\* entries is the set of the (macro, price-list key) pairs still to validate
RECURSIVE errors_of_entries(_, _, _)
errors_of_entries(sconti, overrides, entries) ==
    IF entries = {} THEN <<>>
    ELSE With(CHOOSE e \in entries : TRUE, LAMBDA e :
             override_errors(sconti, e[1], e[2], overrides[e[1]][e[2]])
             \o errors_of_entries(sconti, overrides, entries \ {e}))

validate_ric_overrides(sconti, overrides) ==
    errors_of_entries(sconti, overrides,
                      {<<macro, listino_key>> \in
                           (DOMAIN overrides) \X UNION {DOMAIN overrides[m] : m \in DOMAIN overrides} :
                          listino_key \in DOMAIN overrides[macro]})

refresh_ric_override_errors(st) ==
    [st EXCEPT !.ric_override_errors = validate_ric_overrides(SCONTI, st.ric_overrides)]

reset_results(st) ==
    [st EXCEPT !.upsell_rows = <<>>,
               !.pricing_rows = <<>>,
               !.trace = EmptyDict,
               !.validation = [ok |-> TRUE, errors |-> <<>>],
               !.warnings = <<>>,
               !.per_row_overrides = EmptyDict,
               !.alt_suggestions = <<>>,
               !.extra_rows = <<>>]

ready_to_compute(st) ==
    /\ st.clients # <<>>
    /\ st.stock # <<>>
    /\ Len(st.histories) = 4
    /\ ~IsNone(st.current_order)
    /\ \E i \in 1..Len(CAUSALI) : CAUSALI[i] = st.causale
    /\ ~IsNone(st.selected_client_id)

selected_client(st) ==
    LET Hit(i) == Some(st.clients[i].client_id) = st.selected_client_id
    IN  IF \E i \in 1..Len(st.clients) : Hit(i)
        THEN Some(st.clients[CHOOSE i \in 1..Len(st.clients) :
                                 Hit(i) /\ \A k \in 1..(i - 1) : ~Hit(k)])
        ELSE None

load_current_items(st) ==
    IF IsNone(st.current_order) THEN <<>>
    ELSE LET items == load_orders(st.current_order)
         IN  items \o SelectSeq(st.extra_rows, LAMBDA extra : extra.codice \notin Codes(items))

\* a dict or list argument that the engine tests for truth
Truthy(d) == IF IsEmpty(d) THEN None ELSE Some(d)

EngineEnv(st, client) ==
    Env(StockDict(st.stock), client, st.pricing, st.causale, st.per_row_overrides,
        Truthy(st.ric_overrides), Truthy(st.ric_item_exceptions))

\* the state with the promo suggestions of this computation
with_alt_suggestions(st, historical_items) ==
    [st EXCEPT !.alt_suggestions =
        IF st.alt_mode /\ st.stock_alt_count > 0
        THEN compute_alt_suggestions(st.stock, historical_items, st.upsell_rows,
                                     CATEGORY_MAP, ALT_SUGGESTION_LIMIT)
        ELSE <<>>]

\* a computation that keeps the rows accepted before an error
compute_and_update_partial(st, historical_items, current_items, client, fl) ==
    With(EngineEnv(st, client), LAMBDA env :
    With(compute_upsell(current_items, historical_items, env, fl), LAMBDA res :
        IF res.status = "raise"
        THEN With(run_stages(current_items, historical_items, env, fl), LAMBDA acc :
                 [raised |-> TRUE, error |-> res.error,
                  state |-> [st EXCEPT !.upsell_rows = FirstThree(acc.suggestions),
                                       !.pricing_rows = FirstThree(acc.pricing_rows),
                                       !.trace = [listino_key |-> ListinoKey(client.listino),
                                                  causale |-> st.causale,
                                                  rows |-> acc.trace_rows],
                                       !.warnings = acc.warnings]])
        ELSE [raised |-> FALSE, error |-> "",
              state |-> with_alt_suggestions(
                            [st EXCEPT !.upsell_rows = res.rows,
                                       !.pricing_rows = res.pricing_rows,
                                       !.trace = res.trace,
                                       !.validation = res.validation,
                                       !.warnings = res.warnings],
                            historical_items)]))

\* the five result fields are assigned together from what compute_upsell
\* returns; when it raises nothing is assigned and the error goes to the caller
compute_and_update(st, historical_items, current_items, client, fl) ==
    With(compute_upsell(current_items, historical_items, EngineEnv(st, client), fl), LAMBDA res :
        IF res.status = "raise"
        THEN [raised |-> TRUE, error |-> res.error, state |-> st]
        ELSE [raised |-> FALSE, error |-> "",
              state |-> with_alt_suggestions(
                            [st EXCEPT !.upsell_rows = res.rows,
                                       !.pricing_rows = res.pricing_rows,
                                       !.trace = res.trace,
                                       !.validation = res.validation,
                                       !.warnings = res.warnings],
                            historical_items)])

build_pricing_limits(pricing_rows, trace) ==
    LET rows == Get(trace, "rows", <<>>)
    IN  IF pricing_rows = <<>> /\ rows # <<>>
        THEN [buffer_ric_example |-> Some(rows[1].buffer_ric)]
        ELSE [buffer_ric_example |-> None]

\* what build_quote_payload changes in the state
build_quote_payload(st) ==
    LET pricing_limits == build_pricing_limits(st.pricing_rows, st.trace)
    IN  IF ~IsNone(pricing_limits.buffer_ric_example)
        THEN [st EXCEPT !.pricing.buffer_ric = Val(pricing_limits.buffer_ric_example)]
        ELSE st

Reply(route, status, error, st) ==
    [route |-> route, status |-> status, error |-> error,
     rows |-> IF status = 200 /\ route \in {"/api/compute", "/api/recalc", "/api/alt/add"}
              THEN [i \in 1..Len(st.upsell_rows) |-> st.upsell_rows[i].codice]
              ELSE <<>>]

Handled(st, reply) == [state |-> st, response |-> reply]

NotReady == "Completa clienti, stock, 4 storici, ordine upsell, causale e cliente."

\* the part the three computing routes share: load the inputs, compute, reply
compute_and_reply(route, prefix, st, fl) ==
    With(compute_and_update(st, load_orders(st.histories), load_current_items(st),
                            Val(selected_client(st)), fl),
         LAMBDA done :
        IF done.raised
        THEN Handled(done.state, Reply(route, 500, prefix \o done.error, done.state))
        ELSE With(build_quote_payload(done.state), LAMBDA quoted :
                 Handled(quoted, Reply(route, 200, "", quoted))))

api_load(st) ==
    LET cleared == reset_results(st)
    IN  Handled([cleared EXCEPT
                    !.clients = CLIENTI_XLSX,
                    !.stock = STOCK_XLSX,
                    !.stock_alt_count =
                        Cardinality({i \in 1..Len(STOCK_XLSX) :
                            /\ ~IsNone(STOCK_XLSX[i].prezzo_alt)
                            /\ FLt(F(0), Val(STOCK_XLSX[i].prezzo_alt))})],
                Reply("/api/load", 200, "", st))

api_select_client(st, client_id) ==
    Handled(IF client_id # "" THEN [st EXCEPT !.selected_client_id = Some(client_id)] ELSE st,
            Reply("/api/select_client", 200, "", st))

api_set_order(st, order_name) ==
    Handled(IF order_name # ""
            THEN reset_results([st EXCEPT !.current_order =
                     IF order_name \in DOMAIN ORDERS_DIR THEN Some(order_name) ELSE None])
            ELSE st,
            Reply("/api/set_order", 200, "", st))

\* a name that is a path: absolute, with a parent step or with a directory
IsPathName(name) == Contains(name, "/") \/ name = ".."

api_set_histories(st, histories) ==
    LET named == SelectSeq(histories, LAMBDA name : name # "")
        invalid_names == SelectSeq(named, IsPathName)
        cleaned == SelectSeq(named, LAMBDA name : ~IsPathName(name))
        missing == SelectSeq(cleaned, LAMBDA name : name \notin DOMAIN ORDERS_DIR)
    IN  IF invalid_names # <<>>
        THEN Handled(st, Reply("/api/set_histories", 400, "invalid_names", st))
        ELSE IF Len(cleaned) > 4
        THEN Handled(st, Reply("/api/set_histories", 400, "too_many_files", st))
        ELSE IF missing # <<>>
        THEN Handled(st, Reply("/api/set_histories", 400, "missing_files", st))
        ELSE Handled(reset_results([st EXCEPT !.histories = cleaned]),
                     Reply("/api/set_histories", 200, "", st))

api_set_causale(st, causale) ==
    Handled(IF \E i \in 1..Len(CAUSALI) : CAUSALI[i] = causale
            THEN reset_results([st EXCEPT !.causale = causale])
            ELSE st,
            Reply("/api/set_causale", 200, "", st))

\* every stored row override without its alt_selected key
without_alt_selected(per_row_overrides) ==
    [sku \in DOMAIN per_row_overrides |-> DropKey(per_row_overrides[sku], "alt_selected")]

set_alt_mode(st, alt_mode) ==
    [st EXCEPT !.alt_mode = alt_mode,
               !.per_row_overrides = IF alt_mode THEN @ ELSE without_alt_selected(@)]

api_set_alt_mode(st, alt_mode) ==
    Handled(set_alt_mode(st, alt_mode), Reply("/api/set_alt_mode", 200, "", st))

\* aggressivita is None when float() rejects the value sent
api_set_aggressivita(st, aggressivita) ==
    Handled(IF IsNone(aggressivita) THEN st
            ELSE reset_results([st EXCEPT !.pricing.aggressivity = Val(aggressivita)]),
            Reply("/api/set_aggressivita", 200, "", st))

api_compute(sent, fl) ==
    IF ~ready_to_compute(sent)
    THEN Handled(sent, Reply("/api/compute", 400, NotReady, sent))
    ELSE
    With(refresh_ric_override_errors(sent), LAMBDA st :
    IF IsNone(selected_client(st))
    THEN Handled(st, Reply("/api/compute", 500, "Errore calcolo: Cliente non selezionato", st))
    ELSE compute_and_reply("/api/compute", "Errore calcolo: ",
             [st EXCEPT !.per_row_overrides = EmptyDict,
                        !.extra_rows = <<>>,
                        !.pricing = [aggressivity |-> F(0),
                                     max_discount_percent |-> None,
                                     buffer_ric |-> F(2),
                                     rounding |-> Some(Frac(1, 100))]],
             fl))

\* global_params and overrides are None when the value sent is not a dict; a
\* rounding of "NONE", "" or null is sent as None
api_recalc(st, global_params, overrides, fl) ==
    IF ~ready_to_compute(st)
    THEN Handled(st, Reply("/api/recalc", 400, NotReady, st))
    ELSE
    LET params == Val(global_params)
    IN  With(IF ~IsNone(global_params) /\ "alt_mode" \in DOMAIN params
             THEN set_alt_mode(st, params.alt_mode)
             ELSE st,
             LAMBDA switched :
        With(IF IsNone(global_params) THEN switched
             ELSE [switched EXCEPT !.pricing =
                      [aggressivity |-> Get(params, "aggressivity", st.pricing.aggressivity),
                       max_discount_percent |-> GetOpt(params, "max_discount_percent"),
                       buffer_ric |-> Get(params, "buffer_ric", st.pricing.buffer_ric),
                       rounding |-> Get(params, "rounding", st.pricing.rounding)]],
             LAMBDA priced :
        With(refresh_ric_override_errors(
                 IF IsNone(overrides) THEN priced
                 ELSE [priced EXCEPT !.per_row_overrides = Val(overrides)]),
             LAMBDA overridden :
            IF IsNone(selected_client(overridden))
            THEN Handled(overridden,
                         Reply("/api/recalc", 500, "Errore recalcolo: Cliente non selezionato",
                               overridden))
            ELSE compute_and_reply("/api/recalc", "Errore recalcolo: ", overridden, fl))))

\* qty is None when float() rejects the value sent
api_alt_add(st, sku_sent, qty, fl) ==
    LET Added(sku, stock_item, qty_value) ==
            [st EXCEPT
                !.extra_rows = Append(@, OrderItem(stock_item.marca, stock_item.categoria,
                                                   stock_item.codice, stock_item.descrizione,
                                                   qty_value, stock_item.lm)),
                !.per_row_overrides =
                    (sku :> (("qty" :> qty_value) @@ ("alt_selected" :> TRUE)
                             @@ Get(st.per_row_overrides, sku, EmptyDict)))
                        @@ @]
    IN  With(Strip(sku_sent), LAMBDA sku :
        With(StockDict(st.stock), LAMBDA stock :
        IF ~ready_to_compute(st)
        THEN Handled(st, Reply("/api/alt/add", 400, "Dati non pronti.", st))
        ELSE IF sku = ""
        THEN Handled(st, Reply("/api/alt/add", 400, "SKU mancante.", st))
        ELSE IF \/ sku \notin DOMAIN stock
                \/ IsNone(stock[sku].prezzo_alt)
                \/ FLe(Val(stock[sku].prezzo_alt), F(0))
        THEN Handled(st, Reply("/api/alt/add", 400,
                               "PREZZO_ALT non disponibile per questo SKU.", st))
        ELSE IF sku \in Codes(load_current_items(st))
        THEN Handled(st, Reply("/api/alt/add", 400, "SKU già presente nel preventivo.", st))
        ELSE
        With(Added(sku, stock[sku], IF IsNone(qty) THEN F(1) ELSE FMax(F(1), Val(qty))),
             LAMBDA added :
            IF IsNone(selected_client(added))
            THEN Handled(added, Reply("/api/alt/add", 500,
                                      "Errore aggiunta ALT: Cliente non selezionato", added))
            ELSE compute_and_reply("/api/alt/add", "Errore aggiunta ALT: ", added, fl))))

\* the workbook export_excel saves: the header and a line per row
export_excel(rows, client, order_file) ==
    [cliente |-> client.ragione_sociale, listino |-> client.listino, ordine |-> order_file,
     righe |-> [i \in 1..Len(rows) |->
                   [codice |-> rows[i].codice, qty |-> rows[i].qty,
                    prezzo_unit |-> rows[i].prezzo_unit, totale |-> rows[i].totale]]]

Exported(st, reply, written) == [state |-> st, response |-> reply, written |-> written]

\* an export that does not look at the stored validation
api_export_unvalidated(st) ==
    IF st.upsell_rows = <<>>
    THEN Exported(st, Reply("/api/export", 400, "Nessuna riga da esportare.", st), None)
    ELSE IF st.ric_override_errors # <<>>
    THEN Exported(st, Reply("/api/export", 400,
                            "Override RIC non valide: correggi prima dell'export.", st), None)
    ELSE IF IsNone(selected_client(st))
    THEN Exported(st, Reply("/api/export", 500, "Errore export: Cliente non selezionato", st),
                  None)
    ELSE Exported(st, Reply("/api/export", 200, "", st),
                  Some(export_excel(st.upsell_rows, Val(selected_client(st)),
                                    Val(st.current_order))))

\* written is None or Some(the workbook saved as preventivo.xlsx)
api_export(st) ==
    IF st.upsell_rows = <<>>
    THEN Exported(st, Reply("/api/export", 400, "Nessuna riga da esportare.", st), None)
    ELSE IF st.ric_override_errors # <<>>
    THEN Exported(st, Reply("/api/export", 400,
                            "Override RIC non valide: correggi prima dell'export.", st), None)
    ELSE IF ~st.validation.ok
    THEN Exported(st, Reply("/api/export", 400,
                            "Correggi le righe con errore prima dell'export.", st), None)
    ELSE IF IsNone(selected_client(st))
    THEN Exported(st, Reply("/api/export", 500, "Errore export: Cliente non selezionato", st),
                  None)
    ELSE Exported(st, Reply("/api/export", 200, "", st),
                  Some(export_excel(st.upsell_rows, Val(selected_client(st)),
                                    Val(st.current_order))))

(***************************************************************************)
(* The server: requests                                                    *)
(***************************************************************************)
ClientIds == {"", "100", "999"}

OrderNames == {"", "UPSELL-1.xlsx", "UPSELL-2.xlsx", "UPSELL-3.xlsx", "UPSELL-9.xlsx"}

FourHistories == <<"STORICO-1.xlsx", "STORICO-2.xlsx", "STORICO-3.xlsx", "STORICO-4.xlsx">>

HistoryLists ==
    {FourHistories,
     <<"STORICO-1.xlsx", "", "STORICO-3.xlsx">>,
     <<"../STORICO-1.xlsx">>,
     Append(FourHistories, "STORICO-1.xlsx"),
     <<"STORICO-9.xlsx">>}

CausaliSent == {"PROGRAMMATO", "ALTRO"}

AggressivitaSent == {None, Some(F(50))}

GlobalParamsSent ==
    {None, Some([alt_mode |-> TRUE, max_discount_percent |-> F(4), rounding |-> None])}

OverridesSent == {None, Some("CY1" :> ("unit_price_override" :> Frac(1, 10)))}

SkusSent == {"", " PA1 ", "ZZ1", "BA1", "PB1"}

QtySent == {None, Some(F(2))}

\* the length of the sessions explored
MaxRequests == 7

ServerInit ==
    /\ State = AppState
    /\ response = [route |-> "", status |-> 0, error |-> "", rows |-> <<>>]
    /\ requests = 0
    /\ OUTPUT_DIR = None
    /\ RicIdle
    /\ PipeIdle
    /\ UpsIdle
    /\ FnIdle
    /\ CallIdle

Handle(handled) ==
    /\ requests < MaxRequests
    /\ requests' = requests + 1
    /\ State' = handled.state
    /\ response' = handled.response
    /\ UNCHANGED <<OUTPUT_DIR, ricVars, pipeVars, upsVars, fnVars, callVars>>

Load == Handle(api_load(State))

SelectClient == \E client_id \in ClientIds : Handle(api_select_client(State, client_id))

SetOrder == \E order_name \in OrderNames : Handle(api_set_order(State, order_name))

SetHistories == \E histories \in HistoryLists : Handle(api_set_histories(State, histories))

SetCausale == \E causale \in CausaliSent : Handle(api_set_causale(State, causale))

SetAltMode == \E alt_mode \in BOOLEAN : Handle(api_set_alt_mode(State, alt_mode))

SetAggressivita ==
    \E aggressivita \in AggressivitaSent : Handle(api_set_aggressivita(State, aggressivita))

Compute == Handle(api_compute(State, Exact))

Recalc ==
    \E global_params \in GlobalParamsSent, overrides \in OverridesSent :
        Handle(api_recalc(State, global_params, overrides, Exact))

AltAdd == \E sku \in SkusSent, qty \in QtySent : Handle(api_alt_add(State, sku, qty, Exact))

Next ==
    \/ Load
    \/ SelectClient
    \/ SetOrder
    \/ SetHistories
    \/ SetCausale
    \/ SetAltMode
    \/ SetAggressivita
    \/ Compute
    \/ Recalc
    \/ AltAdd

Spec == ServerInit /\ [][Next]_vars

\* the reply of /api/min_price: the reply of every route, the SKU asked and,
\* when the query succeeds, the values it returns
MinPriceReply(status, error, st, sku, payload) ==
    [route |-> "/api/min_price", status |-> status, error |-> error, rows |-> <<>>,
     sku |-> sku, payload |-> payload]

api_min_price(st, sku, fl) ==
    IF ~ready_to_compute(st)
    THEN Handled(st, MinPriceReply(400, "Dati non pronti.", st, sku, None))
    ELSE IF sku = ""
    THEN Handled(st, MinPriceReply(400, "SKU mancante.", st, sku, None))
    ELSE IF \A i \in 1..Len(st.stock) : st.stock[i].codice # sku
    THEN Handled(st, MinPriceReply(404, "SKU non trovato.", st, sku, None))
    ELSE
    With(StockDict(st.stock)[sku], LAMBDA stock_item :
    With(map_macro_category(stock_item.categoria, CATEGORY_MAP), LAMBDA macro :
    With(selected_client(st), LAMBDA client :
    IF macro = "UNKNOWN"
    THEN Handled(st, MinPriceReply(500, "Errore calcolo: Categoria non riconosciuta", st,
                                   sku, None))
    ELSE IF IsNone(client)
    THEN Handled(st, MinPriceReply(500, "Errore calcolo: Cliente non selezionato", st,
                                   sku, None))
    ELSE
    With(resolve_ric_values(macro, Val(client).listino, SCONTI, Some(st.ric_overrides),
                            Some(st.ric_item_exceptions), Some(sku)),
         LAMBDA ric_values :
    IF fl["<=", stock_item.lm, F(0)]
    THEN Handled(st, MinPriceReply(500, "Errore calcolo: LM mancante", st, sku, None))
    ELSE
    With(fl["*", stock_item.lm, fl["+", F(1), fl["/", ric_values.ric_base, F(100)]]],
         LAMBDA baseline_price :
    With(fl["*", stock_item.lm, fl["+", F(1), fl["/", ric_values.ric_floor, F(100)]]],
         LAMBDA min_unit_price :
        Handled(st, MinPriceReply(200, "", st, sku,
            Some([min_unit_price |-> min_unit_price,
                  required_ric |-> ric_values.ric_floor,
                  lm |-> stock_item.lm,
                  fixed_discount_percent |->
                      get_fixed_discount(macro, Val(client).listino, SCONTI),
                  customer_base_price |-> baseline_price,
                  ric_base |-> ric_values.ric_base,
                  ric_base_source |-> ric_values.ric_base_source,
                  ric_floor_source |-> ric_values.ric_floor_source,
                  item_exception_hit |-> ric_values.item_exception_hit,
                  max_discount_real_pct |->
                      fl["*", IF fl["!=", baseline_price, F(0)]
                              THEN fl["-", F(1), fl["/", min_unit_price, baseline_price]]
                              ELSE F(0),
                         F(100)]])))))))))

(***************************************************************************)
(* The server: the requests that lead to an export                         *)
(***************************************************************************)
\* config/ric_overrides.json as the server finds it at start: absent, or
\* with a markup floor under the minimum of its price list
RIC_OVERRIDES_FILES ==
    {EmptyDict, "ORIGINALI" :> ("RIV" :> [ric_floor |-> F(5), ric_base |-> F(35)])}

ExportInit ==
    /\ \E file \in RIC_OVERRIDES_FILES :
          State = refresh_ric_override_errors([AppState EXCEPT !.ric_overrides = file])
    /\ response = [route |-> "", status |-> 0, error |-> "", rows |-> <<>>]
    /\ requests = 0
    /\ OUTPUT_DIR = None
    /\ RicIdle
    /\ PipeIdle
    /\ UpsIdle
    /\ FnIdle
    /\ CallIdle

\* the two clients of CLIENTI.xlsx, on different price lists
ClientsSent == {"100", "200"}

ClientPicked == \E client_id \in ClientsSent : Handle(api_select_client(State, client_id))

OrderPicked == \E order_name \in {"UPSELL-1.xlsx", "UPSELL-2.xlsx"} :
                  Handle(api_set_order(State, order_name))

\* the four history files, or four in which the line of BA1 carries the
\* category text of another macro than its stock row
HistoriesSent ==
    {FourHistories, <<"STORICO-5.xlsx", "STORICO-2.xlsx", "STORICO-3.xlsx", "STORICO-4.xlsx">>}

HistoriesPicked == \E histories \in HistoriesSent : Handle(api_set_histories(State, histories))

SkusAsked == {"", "CY1", "BA1", "PA1", "UN1", "XX1"}

MinPrice == \E sku \in SkusAsked : Handle(api_min_price(State, sku, Binary64))

ComputeFloat == Handle(api_compute(State, Binary64))

RecalcFloat == \E overrides \in OverridesSent : Handle(api_recalc(State, None, overrides, Binary64))

Export ==
    /\ requests < MaxRequests
    /\ requests' = requests + 1
    /\ State' = api_export(State).state
    /\ response' = api_export(State).response
    /\ OUTPUT_DIR' = IF IsNone(api_export(State).written) THEN OUTPUT_DIR
                     ELSE api_export(State).written
    /\ UNCHANGED <<ricVars, pipeVars, upsVars, fnVars, callVars>>

ExportNext ==
    \/ Load
    \/ ClientPicked
    \/ OrderPicked
    \/ HistoriesPicked
    \/ ComputeFloat
    \/ RecalcFloat
    \/ MinPrice
    \/ Export

SpecExport == ExportInit /\ [][ExportNext]_vars

(***************************************************************************)
(* The server: the routes that edit the markup policy                      *)
(***************************************************************************)
\* str(scope or "all").upper().strip().replace("+", ""), then the known names
normalize_item_exception_scope(scope) ==
    With(Remove(Strip(Upper(IF scope = "" THEN "all" ELSE scope)), "+"), LAMBDA value :
        IF value \in {"", "ALL"} THEN "all"
        ELSE IF value = "RIV10" THEN "RIV10"
        ELSE IF value \in {"RIV", "DIST"} THEN value
        ELSE "all")

\* the note of an entry is left out
normalize_item_exception_entry(entry) ==
    [sku |-> normalize_sku(Get(entry, "sku", "")),
     scope |-> normalize_item_exception_scope(Get(entry, "scope", "all")),
     ric_base_override |-> Get(entry, "ric_base_override", F(0))]

find_stock_item_by_sku(st, sku) ==
    LET Found(i) == normalize_sku(st.stock[i].codice) = normalize_sku(sku)
    IN  IF \E i \in 1..Len(st.stock) : Found(i)
        THEN Some(st.stock[CHOOSE i \in 1..Len(st.stock) :
                               Found(i) /\ \A k \in 1..(i - 1) : ~Found(k)])
        ELSE None

listino_label_from_scope(scope) ==
    IF scope = "RIV10" THEN "LISTINO RI+10%"
    ELSE IF scope = "DIST" THEN "LISTINO DI"
    ELSE "LISTINO RI"

\* the price-list keys an entry of this scope applies to
listino_keys_of(scope) ==
    CASE scope = "all" -> <<"RIV", "RIV+10", "DIST">>
      [] scope = "RIV10" -> <<"RIV+10">>
      [] scope = "RIV" -> <<"RIV">>
      [] scope = "DIST" -> <<"DIST">>
      [] OTHER -> <<>>

RECURSIVE max_floor(_, _, _, _, _)
max_floor(st, macro, sku, listino_keys, best) ==
    IF listino_keys = <<>> THEN best
    ELSE With(resolve_ric_values(
                  macro,
                  listino_label_from_scope(IF Head(listino_keys) = "RIV+10" THEN "RIV10"
                                           ELSE Head(listino_keys)),
                  SCONTI, Some(st.ric_overrides), None, Some(sku)).ric_floor,
              LAMBDA floor :
             max_floor(st, macro, sku, Tail(listino_keys),
                       IF IsNone(best) THEN Some(floor) ELSE Some(FMax(Val(best), floor))))

\* a validation that leaves out the test against the absolute minimum
validate_item_exception_no_minimum(st, entry) ==
    With(find_stock_item_by_sku(st, entry.sku), LAMBDA stock_item :
        IF IsNone(stock_item) THEN [valid |-> TRUE, error |-> ""]
        ELSE With(map_macro_category(Val(stock_item).categoria, CATEGORY_MAP), LAMBDA macro :
             IF macro = "UNKNOWN" THEN [valid |-> TRUE, error |-> ""]
             ELSE With(max_floor(st, macro, entry.sku, listino_keys_of(entry.scope), None),
                       LAMBDA floors :
                  With(IF IsNone(floors) THEN ABSOLUTE_MIN_MARKUP ELSE Val(floors),
                       LAMBDA floor_required :
                      IF FLt(entry.ric_base_override, floor_required)
                      THEN [valid |-> FALSE, error |-> "RIC.BASE override sotto il RIC minimo."]
                      ELSE [valid |-> TRUE, error |-> ""]))))

\* the amounts the second message quotes are left out
validate_item_exception(st, entry) ==
    IF FLt(entry.ric_base_override, ABSOLUTE_MIN_MARKUP)
    THEN [valid |-> FALSE, error |-> "RIC.BASE override deve essere >= 11%."]
    ELSE validate_item_exception_no_minimum(st, entry)

\* the stored entry has this key
HasKey(item, sku, scope) ==
    normalize_sku(Get(item, "sku", "")) = sku /\ Get(item, "scope", "") = scope

api_item_exceptions_add(st, payload) ==
    With(normalize_item_exception_entry(payload), LAMBDA incoming :
        IF incoming.sku = ""
        THEN Handled(st, Reply("/api/ric/item_exceptions/add", 400, "SKU mancante.", st))
        ELSE With(validate_item_exception(st, incoming), LAMBDA checked :
             IF ~checked.valid
             THEN Handled(st, Reply("/api/ric/item_exceptions/add", 400, checked.error, st))
             ELSE IF \E i \in 1..Len(st.ric_item_exceptions) :
                         HasKey(st.ric_item_exceptions[i], incoming.sku, incoming.scope)
             THEN Handled(st, Reply("/api/ric/item_exceptions/add", 400,
                                    "Eccezione gia presente per questo SKU e scope.", st))
             ELSE Handled([st EXCEPT !.ric_item_exceptions = Append(@, incoming)],
                          Reply("/api/ric/item_exceptions/add", 200, "", st))))

api_item_exceptions_update(st, payload) ==
    With(normalize_item_exception_entry(payload), LAMBDA incoming :
    With(normalize_sku(Get(payload, "original_sku", incoming.sku)), LAMBDA original_sku :
    With(normalize_item_exception_scope(Get(payload, "original_scope", incoming.scope)),
         LAMBDA original_scope :
        IF incoming.sku = ""
        THEN Handled(st, Reply("/api/ric/item_exceptions/update", 400, "SKU mancante.", st))
        ELSE With(validate_item_exception(st, incoming), LAMBDA checked :
             IF ~checked.valid
             THEN Handled(st, Reply("/api/ric/item_exceptions/update", 400, checked.error, st))
             ELSE LET Hit(i) == HasKey(st.ric_item_exceptions[i], original_sku, original_scope)
                  IN  IF \E i \in 1..Len(st.ric_item_exceptions) : Hit(i)
                      THEN Handled(
                               [st EXCEPT !.ric_item_exceptions[
                                   CHOOSE i \in 1..Len(st.ric_item_exceptions) :
                                       Hit(i) /\ \A k \in 1..(i - 1) : ~Hit(k)] = incoming],
                               Reply("/api/ric/item_exceptions/update", 200, "", st))
                      ELSE Handled(st, Reply("/api/ric/item_exceptions/update", 404,
                                             "Eccezione non trovata.", st))))))

api_item_exceptions_delete(st, payload) ==
    With(normalize_sku(Get(payload, "sku", "")), LAMBDA sku :
    With(normalize_item_exception_scope(Get(payload, "scope", "all")), LAMBDA scope :
        IF sku = ""
        THEN Handled(st, Reply("/api/ric/item_exceptions/delete", 400, "SKU mancante.", st))
        ELSE With(SelectSeq(st.ric_item_exceptions, LAMBDA item : ~HasKey(item, sku, scope)),
                  LAMBDA kept :
             IF Len(kept) = Len(st.ric_item_exceptions)
             THEN Handled([st EXCEPT !.ric_item_exceptions = kept],
                          Reply("/api/ric/item_exceptions/delete", 404,
                                "Eccezione non trovata.", st))
             ELSE Handled([st EXCEPT !.ric_item_exceptions = kept],
                          Reply("/api/ric/item_exceptions/delete", 200, "", st)))))

api_item_exceptions_reset_all(st) ==
    Handled([st EXCEPT !.ric_item_exceptions = <<>>],
            Reply("/api/ric/item_exceptions/reset_all", 200, "", st))

\* the table the submitted rows build, or raised when float() is given None;
\* a later row of a pair replaces an earlier one; the note is left out
RECURSIVE overrides_of_rows(_, _)
overrides_of_rows(incoming, new_overrides) ==
    IF incoming = <<>> THEN [raised |-> FALSE, overrides |-> new_overrides]
    ELSE With(Head(incoming), LAMBDA row :
         With(Get(row, "categoria", ""), LAMBDA macro :
         With(Get(row, "listino", ""), LAMBDA listino :
             IF macro = "" \/ listino = ""
             THEN overrides_of_rows(Tail(incoming), new_overrides)
             ELSE IF "ric_base" \notin DOMAIN row \/ "ric_floor" \notin DOMAIN row
             THEN [raised |-> TRUE, overrides |-> new_overrides]
             ELSE overrides_of_rows(
                      Tail(incoming),
                      (macro :> ((listino :> [ric_base |-> row.ric_base,
                                              ric_floor |-> row.ric_floor])
                                 @@ Get(new_overrides, macro, EmptyDict)))
                      @@ new_overrides))))

\* a handler that stores the submitted table whatever the validation says
api_ric_save_overrides_unvalidated(st, incoming) ==
    With(overrides_of_rows(incoming, EmptyDict), LAMBDA built :
        IF built.raised
        THEN Handled(st, Reply("/api/ric/save_overrides", 500, "Errore salvataggio RIC: ", st))
        ELSE Handled(refresh_ric_override_errors([st EXCEPT !.ric_overrides = built.overrides]),
                     Reply("/api/ric/save_overrides", 200, "", st)))

api_ric_save_overrides(st, incoming) ==
    With(overrides_of_rows(incoming, EmptyDict), LAMBDA built :
        IF ~built.raised /\ validate_ric_overrides(SCONTI, built.overrides) # <<>>
        THEN Handled(st, Reply("/api/ric/save_overrides", 400, "override_invalid", st))
        ELSE api_ric_save_overrides_unvalidated(st, incoming))

(***************************************************************************)
(* The server: a session of the policy editor                              *)
(***************************************************************************)
OverrideRow(categoria, listino, ric_base, ric_floor) ==
    [categoria |-> categoria, listino |-> listino, ric_base |-> ric_base,
     ric_floor |-> ric_floor]

\* the rows the editor submits: none, a valid row, a baseline under its
\* floor, a floor under the minimum, a pair with no defaults, a row with no
\* category before a valid one, a row with no floor, and two rows of one
\* pair of which the second is valid
OverrideRowsSent ==
    {<<>>,
     <<OverrideRow("ORIGINALI", "RIV", F(35), F(28))>>,
     <<OverrideRow("ORIGINALI", "RIV", F(5), F(28))>>,
     <<OverrideRow("ORIGINALI", "RIV", F(35), F(5))>>,
     <<OverrideRow("ORIGINALI", "RIV", F(5), F(5))>>,
     <<OverrideRow("BATTERIE", "RIV", F(35), F(28))>>,
     <<OverrideRow("ORIGINALI", "DIST", F(30), F(30)), OverrideRow("CARTA", "RIV", F(11), F(11))>>,
     <<OverrideRow("ORIGINALI", "DIST", F(40), F(30)), OverrideRow("CARTA", "DIST", F(40), F(30))>>,
     <<OverrideRow("", "RIV", F(5), F(28)), OverrideRow("CARTA", "RIV+10", F(17), F(17))>>,
     <<[categoria |-> "ORIGINALI", listino |-> "RIV", ric_base |-> F(35)]>>,
     <<OverrideRow("ORIGINALI", "RIV", F(35), F(5)), OverrideRow("ORIGINALI", "RIV", F(35), F(28))>>}

\* the entries the editor sends to add and update: a SKU in stock and one
\* that is not, with and without a scope, a baseline or an original key
ExceptionPayloads ==
    {[sku |-> sku, scope |-> scope, ric_base_override |-> v] :
        sku \in {"", " cy1", "ZZ9"}, scope \in {"", "riv+10"}, v \in {F(5), F(20), F(35)}}
    \cup {[sku |-> "ZZ9"], [sku |-> "cy1", ric_base_override |-> F(35)]}
    \cup {[sku |-> "CY1", scope |-> "RIV10", ric_base_override |-> v, original_sku |-> "zz9",
           original_scope |-> "all"] : v \in {F(5), F(20)}}

DeletePayloads ==
    {[sku |-> ""], [sku |-> "zz9"], [sku |-> "CY1", scope |-> "RIV+10"]}

MaxEdits == 4

Edit(handled) ==
    /\ requests < MaxEdits
    /\ requests' = requests + 1
    /\ State' = handled.state
    /\ response' = handled.response
    /\ UNCHANGED <<OUTPUT_DIR, ricVars, pipeVars, upsVars, fnVars, callVars>>

StockLoaded == Edit(api_load(State))

SaveOverrides == \E incoming \in OverrideRowsSent : Edit(api_ric_save_overrides(State, incoming))

ExceptionAdd == \E payload \in ExceptionPayloads : Edit(api_item_exceptions_add(State, payload))

ExceptionUpdate ==
    \E payload \in ExceptionPayloads : Edit(api_item_exceptions_update(State, payload))

ExceptionDelete ==
    \E payload \in DeletePayloads : Edit(api_item_exceptions_delete(State, payload))

ExceptionResetAll == Edit(api_item_exceptions_reset_all(State))

EditNext ==
    \/ StockLoaded
    \/ SaveOverrides
    \/ ExceptionAdd
    \/ ExceptionUpdate
    \/ ExceptionDelete
    \/ ExceptionResetAll

SpecEdit == ExportInit /\ [][EditNext]_vars

(***************************************************************************)
(* Properties of the policy resolver (under SpecRic)                       *)
(***************************************************************************)
RicDone == ric_out # None

RicRes == Val(ric_out).res

\* C6: resolve_ric_values aborts with a policy configuration error when the
\* category discount table has no default entry for the (macro-category,
\* price-list) pair of the call
C6_AbortsWithoutDefault ==
    (RicDone /\ ~HasDefault(ric_in.sconti, ric_in.macro, ric_in.listino))
        => RicRes.status = "error"

\* the entries of the exception list that match the SKU of the call, split by
\* scope: ALL (or no scope field) and the price-list of the call
ListinoScope(listino) ==
    IF ListinoKey(listino) = "RIV+10" THEN "RIV10" ELSE ListinoKey(listino)

MatchesSku(entry) == normalize_sku(entry.sku) = normalize_sku(Val(ric_in.sku))

IsAllScoped(entry) == "scope" \notin DOMAIN entry \/ Upper(entry.scope) = "ALL"

IsListScoped(entry) ==
    "scope" \in DOMAIN entry /\ Remove(Upper(entry.scope), "+") = ListinoScope(ric_in.listino)

ExceptionsOfCall == Val(ric_in.item_exceptions)

\* C7: when an exception scoped to the price-list of the call and an ALL-scoped
\* one (an entry without scope included) both match the SKU, the SKU-exception
\* baseline candidate is the value of a price-list-scoped entry, whatever the
\* order of the list
C7_SpecificScopeWins ==
    (RicDone /\ \E i \in 1..Len(ExceptionsOfCall) :
                    MatchesSku(ExceptionsOfCall[i]) /\ IsListScoped(ExceptionsOfCall[i]))
        => \E i \in 1..Len(ExceptionsOfCall) :
              /\ MatchesSku(ExceptionsOfCall[i])
              /\ IsListScoped(ExceptionsOfCall[i])
              /\ Val(ric_out).item_base = Some(ExceptionsOfCall[i].ric_base_override)

\* C8: the resolved floor and baseline are never below those of the
\* default-only call, and raising the category override's floor lowers neither
C8_RaiseOnlyMerge ==
    RicDone =>
        /\ FLe(Val(ric_out).res_default.ric_floor, RicRes.ric_floor)
        /\ FLe(Val(ric_out).res_default.ric_base, RicRes.ric_base)
        /\ FLe(RicRes.ric_floor, Val(ric_out).res_raised.ric_floor)
        /\ FLe(RicRes.ric_base, Val(ric_out).res_raised.ric_base)

\* a call whose override raised the floor above the default, with an exception
\* applying, and whose raised override moved the floor further up
C8_Witness ==
    /\ RicDone
    /\ FLt(Val(ric_out).res_default.ric_floor, RicRes.ric_floor)
    /\ RicRes.item_exception_hit
    /\ FLt(RicRes.ric_floor, Val(ric_out).res_raised.ric_floor)
    /\ FLt(RicRes.ric_base, Val(ric_out).res_raised.ric_base)

\* C9: the resolved floor is at least the absolute minimum markup and the
\* resolved baseline is at least the resolved floor
C9_FloorAndBaselineBounds ==
    RicDone =>
        /\ FLe(ABSOLUTE_MIN_MARKUP, RicRes.ric_floor)
        /\ FLe(RicRes.ric_floor, RicRes.ric_base)

\* a call whose category override and whose SKU exception both specify values
\* below the floor
C9_Witness ==
    /\ RicDone
    /\ ~IsNone(ric_in.ric_overrides)
    /\ \E e \in OverrideEntries :
          /\ Val(ric_in.ric_overrides)[ric_in.macro][ListinoKey(ric_in.listino)] = e
          /\ DOMAIN e = {"ric_floor", "ric_base"}
          /\ FLt(e.ric_floor, ABSOLUTE_MIN_MARKUP)
          /\ FLt(e.ric_base, ABSOLUTE_MIN_MARKUP)
    /\ ~IsNone(Val(ric_out).item_base)
    /\ FLt(Val(Val(ric_out).item_base), RicRes.ric_floor)

\* the layers of the call: the defaults of the pair, the category override
\* of the pair and the SKU exception the call applied
DefaultsOfCall ==
    Get(Get(ric_in.sconti, ric_in.macro, EmptyDict), ListinoKey(ric_in.listino), EmptyDict)

DefaultFloor == FMax(ABSOLUTE_MIN_MARKUP, Get(DefaultsOfCall, "ric", ABSOLUTE_MIN_MARKUP))

DefaultBaseline == Get(DefaultsOfCall, "ric_base", DefaultFloor)

OverrideOfCall ==
    IF IsNone(ric_in.ric_overrides) THEN EmptyDict
    ELSE Get(Get(Val(ric_in.ric_overrides), ric_in.macro, EmptyDict),
             ListinoKey(ric_in.listino), EmptyDict)

OverrideBaseline == GetOpt(OverrideOfCall, "ric_base")

ExceptionBaseline == Val(ric_out).item_base

\* the greatest of the floor, the default baseline and the baselines of the
\* layers that have one
GreatestBaseline ==
    LET c1 == FMax(RicRes.ric_floor, DefaultBaseline)
        c2 == IF IsNone(OverrideBaseline) THEN c1 ELSE FMax(c1, Val(OverrideBaseline))
    IN  IF IsNone(ExceptionBaseline) THEN c2 ELSE FMax(c2, Val(ExceptionBaseline))

\* the category override gave the final baseline: as its baseline, or as the
\* floor it raised
OverrideGaveBaseline ==
    \/ OverrideBaseline = Some(RicRes.ric_base)
    \/ RicRes.ric_floor_source = "category_override" /\ RicRes.ric_floor = RicRes.ric_base

\* C26: the baseline is the greatest of the floor, the default baseline,
\* the category-override baseline and the SKU-exception baseline; its source
\* names a layer that gave that value, the most specific one on a tie; the
\* floor source is the category override iff its floor is above the default
C26_BaselineAndSources ==
    RicDone =>
        /\ RicRes.ric_base = GreatestBaseline
        /\ RicRes.ric_base_source \in {"item_exception", "category_override", "default"}
        /\ RicRes.ric_base_source = "item_exception" <=>
              ExceptionBaseline = Some(RicRes.ric_base)
        /\ RicRes.ric_base_source = "category_override" => OverrideGaveBaseline
        /\ RicRes.ric_base_source = "default" => OverrideBaseline # Some(RicRes.ric_base)
        /\ RicRes.ric_floor_source = "category_override" <=>
              /\ "ric_floor" \in DOMAIN OverrideOfCall
              /\ FLt(DefaultFloor, OverrideOfCall.ric_floor)

(***************************************************************************)
(* Properties of the pricing pipeline (under SpecPipe)                     *)
(***************************************************************************)
PipeDone == pipe_out # None

\* the floor-clamp scenario: LM 100, floor 11%, baseline 20%, aggressivity
\* 100, no discount cap and no discount override
IsFloorClampScenario ==
    /\ PipeDone
    /\ pipe_in.lm = F(100)
    /\ pipe_in.ric = <<F(11), F(20)>>
    /\ pipe_in.aggressivity = F(100)
    /\ IsNone(pipe_in.max_discount_percent)
    /\ IsNone(pipe_in.discount_override)

\* a == b, of floats or of a float and a literal
Same(a, b) == ~Binary64["!=", a, b]

ScenarioPrices ==
    /\ Same(Val(pipe_out).baseline_price, F(120))
    /\ Same(Val(pipe_out).floor_price, F(111))
    /\ Same(Val(pipe_out).max_discount_real_pct, Frac(15, 2))
    /\ Same(Val(pipe_out).final_price, F(111))

\* C3 as stated: the scenario yields baseline 120, floor 111, maximum real
\* discount 7.5%, final price 111.00 and a non-null clamp reason naming the
\* minimum-markup floor
C3_ScenarioReportsClamp ==
    IsFloorClampScenario =>
        (ScenarioPrices /\ Val(pipe_out).clamp_reason = Some("MIN_RIC_FLOOR"))

PipeRes == Val(pipe_out)

\* max(0, 1 - floor_price/baseline_price) * 100
MaxRealPct ==
    Binary64["*", Binary64["max", F(0),
                           Binary64["-", F(1), Binary64["/", PipeRes.floor_price,
                                                        PipeRes.baseline_price]]],
             F(100)]

\* the aggressivity within 0..100
ClampedAggressivity ==
    IF Binary64["<", pipe_in.aggressivity, F(0)] THEN F(0)
    ELSE IF Binary64["<", F(100), pipe_in.aggressivity] THEN F(100)
    ELSE pipe_in.aggressivity

\* the cap supplied by the caller, not under 0, or the maximum real discount
DiscountCap ==
    IF IsNone(pipe_in.max_discount_percent) THEN MaxRealPct
    ELSE IF Binary64["<", Val(pipe_in.max_discount_percent), F(0)] THEN F(0)
    ELSE Val(pipe_in.max_discount_percent)

RequestedDiscount ==
    IF IsNone(pipe_in.discount_override)
    THEN Binary64["*", Binary64["/", ClampedAggressivity, F(100)], DiscountCap]
    ELSE Val(pipe_in.discount_override)

EffectiveDiscount ==
    IF Binary64["<", MaxRealPct, RequestedDiscount] THEN MaxRealPct ELSE RequestedDiscount

DiscountedCandidate ==
    Binary64["*", PipeRes.baseline_price,
             Binary64["-", F(1), Binary64["/", EffectiveDiscount, F(100)]]]

\* C24: the requested discount is the override when there is one and
\* otherwise the clamped aggressivity's share of the cap; the effective
\* discount is the smaller of the requested and the maximum real discount;
\* the candidate price is the baseline less the effective discount, and the
\* floor price when that is lower
C24_DiscountResolution ==
    PipeDone =>
        /\ Same(PipeRes.max_discount_real_pct, MaxRealPct)
        /\ Same(PipeRes.desired_discount_pct, RequestedDiscount)
        /\ Same(PipeRes.effective_discount_pct, EffectiveDiscount)
        /\ Same(PipeRes.candidate_price,
                IF Binary64["<", DiscountedCandidate, PipeRes.floor_price]
                THEN PipeRes.floor_price ELSE DiscountedCandidate)

\* a call with an aggressivity above 100 and a cap under 0: the requested
\* discount is 0
C24_Witness ==
    /\ PipeDone
    /\ IsNone(pipe_in.discount_override)
    /\ pipe_in.aggressivity = F(150)
    /\ pipe_in.max_discount_percent = Some(F(-5))
    /\ Same(PipeRes.desired_discount_pct, F(0))
    /\ Same(PipeRes.candidate_price, PipeRes.baseline_price)

(***************************************************************************)
(* Properties of the selector and of its rows (under SpecUpsell)           *)
(***************************************************************************)
UpsDone == ups_out # None

UpsOk == UpsDone /\ Val(ups_out).status = "ok"

UpsRaised == UpsDone /\ Val(ups_out).status = "raise"

Rows == Val(ups_out).rows

TraceRows == Val(ups_out).trace.rows

\* the floor price of the i-th returned row, from its LM and the floor markup
\* resolved for it
RowFloorPrice(i) == UpsArith["*", Rows[i].lm, UpsArith["+", F(1), UpsArith["/", TraceRows[i].ric_floor, F(100)]]]

RowOverride(i) == Get(ups_in.env.overrides, Rows[i].codice, EmptyDict)

\* C1: every returned row's final unit price is at least its floor price
\* LM*(1+floor/100), unless the row carries the clamp reason ALT_LOCKED
C1_FloorInvariant ==
    UpsOk => \A i \in 1..Len(Rows) :
                 \/ Rows[i].clamp_reason = Some("ALT_LOCKED")
                 \/ UpsArith["<=", RowFloorPrice(i), Rows[i].prezzo_unit]

\* a row whose unit-price override was below the floor while the alt offer was
\* selected, returned at a price the rounding step lifted above the floor
C1_Witness ==
    /\ UpsOk
    /\ \E i \in 1..Len(Rows) :
          /\ "unit_price_override" \in DOMAIN RowOverride(i)
          /\ UpsArith["<", RowOverride(i).unit_price_override, RowFloorPrice(i)]
          /\ Get(RowOverride(i), "alt_selected", FALSE)
          /\ Rows[i].clamp_reason = Some("MIN_RIC_FLOOR")
          /\ UpsArith["<", RowFloorPrice(i), Rows[i].prezzo_unit]

\* C2: the returned row list has at most 3 rows and no SKU twice
C2_SelectionCap ==
    UpsOk => /\ Len(Rows) <= 3
             /\ \A i, j \in 1..Len(Rows) : Rows[i].codice = Rows[j].codice => i = j

\* three rows returned while a current line that is on hand in excess of the
\* ordered quantity and available is left out
C2_Witness ==
    /\ UpsOk
    /\ Len(Rows) = 3
    /\ \E k \in 1..Len(ups_in.current_items) :
          LET item == ups_in.current_items[k]
          IN  /\ item.codice \notin Codes(Rows)
              /\ item.codice \in DOMAIN ups_in.env.stock
              /\ UpsArith["<", item.qty, ups_in.env.stock[item.codice].disp]
              /\ is_available(ups_in.env.stock[item.codice], ups_in.env.causale, UpsArith).available

\* a category that matches no configured rule and no built-in token
NoRuleNoToken(categoria) ==
    /\ IsNone(first_rule_macro(normalize_text(categoria), ups_in.env.category_map))
    /\ IsNone(first_token_macro(normalize_text(categoria)))

NamesCategory(categoria) ==
    UpsRaised /\ Val(ups_out).error = "Categoria non riconosciuta: " \o categoria

\* C4 as stated: whenever the current order contains a line whose category
\* matches no rule and no token, compute_upsell aborts with an error naming it
C4_UnknownLineAlwaysAborts ==
    UpsDone => \A k \in 1..Len(ups_in.current_items) :
                   NoRuleNoToken(ups_in.current_items[k].categoria)
                       => NamesCategory(ups_in.current_items[k].categoria)

\* the accumulator when the restock stage reaches the k-th current line
BeforeRestockOf(k) ==
    RestockStage(ColorStage(EmptyAcc, ups_in.current_items, ups_in.historical_items,
                            ups_in.env, UpsArith),
                 SubSeq(ups_in.current_items, 1, k - 1), ups_in.env, UpsArith)

\* the k-th current line is offered as a restock candidate and reaches the
\* classification: nothing raised before it, fewer than 3 rows accepted, not
\* yet suggested, on hand in excess of the ordered quantity, available
OfferedForRestock(k) ==
    LET item == ups_in.current_items[k]
        acc == BeforeRestockOf(k)
    IN  /\ acc.status = "ok"
        /\ Len(acc.suggestions) < 3
        /\ item.codice \notin Codes(acc.suggestions)
        /\ item.codice \in DOMAIN ups_in.env.stock
        /\ UpsArith["<", item.qty, ups_in.env.stock[item.codice].disp]
        /\ is_available(ups_in.env.stock[item.codice], ups_in.env.causale, UpsArith).available

CandidateLines ==
    {ups_in.current_items[k] : k \in 1..Len(ups_in.current_items)}
        \cup {ups_in.historical_items[k] : k \in 1..Len(ups_in.historical_items)}

\* C4 amended: compute_upsell aborts naming the category of a current line
\* that matches no rule and no token when that line is offered as a restock
\* candidate; an abort always names the category of such a candidate line
C4_OfferedUnknownLineAborts ==
    UpsDone =>
        /\ \A k \in 1..Len(ups_in.current_items) :
              (NoRuleNoToken(ups_in.current_items[k].categoria) /\ OfferedForRestock(k))
                  => NamesCategory(ups_in.current_items[k].categoria)
        /\ UpsRaised => \E line \in CandidateLines :
                            NoRuleNoToken(line.categoria) /\ NamesCategory(line.categoria)

\* the second line of the order is the unknown one and aborts the call after
\* a row was already accepted
C4_Witness ==
    /\ UpsDone
    /\ Len(ups_in.current_items) = 2
    /\ NoRuleNoToken(ups_in.current_items[2].categoria)
    /\ OfferedForRestock(2)
    /\ BeforeRestockOf(2).suggestions # <<>>
    /\ NamesCategory(ups_in.current_items[2].categoria)

\* the description of the line names one of the three colours
NamesColour(item) ==
    \E c \in {"CYAN", "MAGENTA", "YELLOW"} : Contains(normalize_text(item.descrizione), c)

SameBrandBlack(hist_item, item) ==
    hist_item.marca = item.marca /\ Contains(normalize_text(hist_item.descrizione), "BLACK")

\* the h-th historical line is the first black line of the brand of the k-th
\* current line, a colour line, and is in stock, available, of a recognised
\* category and with a resolvable LM
BlackMatch(k, h) ==
    LET item == ups_in.current_items[k]
        hist_item == ups_in.historical_items[h]
    IN  /\ NamesColour(item)
        /\ SameBrandBlack(hist_item, item)
        /\ \A g \in 1..(h - 1) : ~SameBrandBlack(ups_in.historical_items[g], item)
        /\ hist_item.codice \in DOMAIN ups_in.env.stock
        /\ is_available(ups_in.env.stock[hist_item.codice], ups_in.env.causale, UpsArith).available
        /\ ~NoRuleNoToken(hist_item.categoria)
        /\ UpsArith["<", F(0), resolve_lm(Some(ups_in.env.stock[hist_item.codice]), hist_item, UpsArith).lm]

IsFirstRow(h) ==
    /\ UpsOk
    /\ Rows # <<>>
    /\ Rows[1].codice = ups_in.historical_items[h].codice
    /\ TraceRows[1].selection_reason = "color_match_black"

\* C10 as stated: when rows are returned, the black match of any colour line
\* of the current order is the first row, with reason color_match_black
C10_AnyMatchIsFirstRow ==
    UpsOk => \A k \in 1..Len(ups_in.current_items), h \in 1..Len(ups_in.historical_items) :
                   BlackMatch(k, h) => IsFirstRow(h)

\* C10 amended: when compute_upsell returns, the black match of the first
\* colour line of the current order that has one is the first returned row,
\* with reason color_match_black, and the colour-match rows precede all
\* restock and historical-fallback rows
C10_FirstMatchIsFirstRow ==
    UpsOk =>
        /\ \A k \in 1..Len(ups_in.current_items), h \in 1..Len(ups_in.historical_items) :
              (/\ BlackMatch(k, h)
               /\ \A j \in 1..(k - 1), g \in 1..Len(ups_in.historical_items) : ~BlackMatch(j, g))
                  => IsFirstRow(h)
        /\ \A i, j \in 1..Len(TraceRows) :
              (i < j /\ TraceRows[j].selection_reason = "color_match_black")
                  => TraceRows[i].selection_reason = "color_match_black"

\* the first colour line has no black line on hand, the second one has: its
\* match is the first row, followed by a restock row
C10_Witness ==
    /\ UpsOk
    /\ Len(ups_in.current_items) = 2
    /\ NamesColour(ups_in.current_items[1])
    /\ \A g \in 1..Len(ups_in.historical_items) : ~BlackMatch(1, g)
    /\ \E h \in 1..Len(ups_in.historical_items) : BlackMatch(2, h) /\ IsFirstRow(h)
    /\ Len(TraceRows) > 1
    /\ TraceRows[2].selection_reason = "current_stock_available"

\* a == b in the arithmetic of the call
SameNumber(a, b) == ~UpsArith["!=", a, b]

RowRounding == ups_in.env.pricing.rounding

HasUnitPrice(i) == "unit_price_override" \in DOMAIN RowOverride(i)

HasDiscount(i) == "discount_override" \in DOMAIN RowOverride(i)

AltSelected(i) == Get(RowOverride(i), "alt_selected", FALSE)

Locked(i) == Get(RowOverride(i), "lock", FALSE)

\* the promotional price of the i-th row's stock item, when it has one > 0
PromoAvailable(i) ==
    /\ ~IsNone(ups_in.env.stock[Rows[i].codice].prezzo_alt)
    /\ UpsArith[">", Val(ups_in.env.stock[Rows[i].codice].prezzo_alt), F(0)]

PromoPrice(i) == Val(ups_in.env.stock[Rows[i].codice].prezzo_alt)

\* C14: a row with a unit-price override is priced at max(override, floor)
\* rounded up to the step, whatever its other overrides; its clamp reason is
\* MIN_RIC_FLOOR when the override is below the floor and null otherwise,
\* and it keeps the floor as min_unit_price
C14_UnitPriceOverrideWins ==
    UpsOk => \A i \in 1..Len(Rows) :
        HasUnitPrice(i) =>
            /\ SameNumber(Rows[i].prezzo_unit,
                          round_up_to_step(UpsArith["max", RowOverride(i).unit_price_override,
                                                    RowFloorPrice(i)],
                                           RowRounding, UpsArith))
            /\ Rows[i].clamp_reason =
                   IF UpsArith["<", RowOverride(i).unit_price_override, RowFloorPrice(i)]
                   THEN Some("MIN_RIC_FLOOR") ELSE None
            /\ ~IsNone(Rows[i].min_unit_price)
            /\ SameNumber(Val(Rows[i].min_unit_price), RowFloorPrice(i))

\* the final price of the pipeline for the i-th row under its discount
\* override
DiscountedPrice(i) ==
    apply_pricing_pipeline(Rows[i].lm, TraceRows[i].ric_base, TraceRows[i].ric_floor,
        ups_in.env.pricing.aggressivity, ups_in.env.pricing.max_discount_percent,
        RowRounding, Some(RowOverride(i).discount_override), UpsArith).final_price

\* C15: a row with a discount override and the alt-selected flag, a promo
\* price available and no unit-price override is priced by the pipeline
\* under the discount override
C15_DiscountOverrideBeatsAlt ==
    UpsOk => \A i \in 1..Len(Rows) :
        (HasDiscount(i) /\ AltSelected(i) /\ PromoAvailable(i) /\ ~HasUnitPrice(i)) =>
            SameNumber(Rows[i].prezzo_unit, DiscountedPrice(i))

\* the i-th row is priced from the promotional price
PromoPriced(i) == AltSelected(i) /\ PromoAvailable(i) /\ ~Locked(i) /\ ~HasUnitPrice(i)

LineOf(codice) ==
    CHOOSE item \in {ups_in.current_items[k] : k \in 1..Len(ups_in.current_items)}
                    \cup {ups_in.historical_items[k] : k \in 1..Len(ups_in.historical_items)} :
        item.codice = codice

StockLm(codice) == ups_in.env.stock[codice].lm

\* neither the stock snapshot nor the line gives the SKU an LM > 0
NoLm(item) ==
    /\ item.codice \in DOMAIN ups_in.env.stock
    /\ ~UpsArith[">", StockLm(item.codice), F(0)]
    /\ ~UpsArith[">", item.lm, F(0)]

LmWarning(item) == "LM mancante per SKU " \o item.codice

Warnings == Val(ups_out).warnings

\* a historical line the fallback stage offers and that reaches the LM
\* test, in a call that returned fewer than 3 rows
FallbackWithoutLm(h) ==
    /\ Len(Rows) < 3
    /\ ups_in.historical_items[h].codice \notin Codes(ups_in.current_items)
    /\ NoLm(ups_in.historical_items[h])
    /\ is_available(ups_in.env.stock[ups_in.historical_items[h].codice], ups_in.env.causale,
                    UpsArith).available

\* C17: the LM of a returned row is the stock LM when that is > 0 and the
\* LM of the candidate line otherwise, and it is > 0; a candidate with
\* neither is dropped with a warning naming its SKU and the call still
\* returns; every warning names such a candidate
C17_LmFailSoft ==
    UpsDone =>
        /\ UpsOk => \A i \in 1..Len(TraceRows) :
               /\ UpsArith[">", TraceRows[i].lm, F(0)]
               /\ IF UpsArith[">", StockLm(TraceRows[i].sku), F(0)]
                  THEN TraceRows[i].lm = StockLm(TraceRows[i].sku)
                       /\ TraceRows[i].lm_source = Some("stock")
                  ELSE TraceRows[i].lm = LineOf(TraceRows[i].sku).lm
                       /\ TraceRows[i].lm_source = Some("order")
        /\ UpsOk => \A i \in 1..Len(Rows) : UpsArith[">", Rows[i].lm, F(0)]
        /\ UpsOk => \A w \in 1..Len(Warnings) :
               \E item \in {LineOf(c) : c \in Codes(ups_in.current_items)
                                             \cup Codes(ups_in.historical_items)} :
                   /\ Warnings[w] = LmWarning(item)
                   /\ NoLm(item)
                   /\ item.codice \notin Codes(Rows)
        /\ UpsOk => \A h \in 1..Len(ups_in.historical_items) :
               FallbackWithoutLm(h) =>
                   \E w \in 1..Len(Warnings) :
                       Warnings[w] = LmWarning(ups_in.historical_items[h])

\* a call that dropped a candidate without LM with a warning, then accepted
\* a later candidate, one row being priced on the LM of its order line
C17_Witness ==
    /\ UpsOk
    /\ Len(Warnings) > 0
    /\ \E h \in 1..Len(ups_in.historical_items) :
          /\ FallbackWithoutLm(h)
          /\ \E i \in 1..Len(TraceRows) :
                /\ TraceRows[i].selection_reason = "historical_fallback"
                /\ \E k \in (h + 1)..Len(ups_in.historical_items) :
                      ups_in.historical_items[k].codice = TraceRows[i].sku
    /\ \E i \in 1..Len(TraceRows) : TraceRows[i].lm_source = Some("order")

PricingRows == Val(ups_out).pricing_rows

ValidationResult == Val(ups_out).validation

\* C22: the rows, the pricing-audit rows and the rows of the trace that a
\* call returns have the same length and the same SKU at each index, and
\* every validation error names the SKU of a returned row
C22_OutputsOneToOne ==
    UpsOk =>
        /\ Len(Rows) = Len(PricingRows)
        /\ Len(Rows) = Len(TraceRows)
        /\ \A i \in 1..Len(Rows) :
              /\ Rows[i].codice = PricingRows[i].codice
              /\ i <= Len(TraceRows) => Rows[i].codice = TraceRows[i].sku
        /\ \A e \in 1..Len(ValidationResult.errors) :
              ValidationResult.errors[e].sku \in Codes(Rows)

\* the rows accepted when the three stages are over
Accumulator ==
    run_stages(ups_in.current_items, ups_in.historical_items, ups_in.env, UpsArith).suggestions

\* C23: the stages accept 3 rows at most, whatever the number of colour
\* lines of the current order
C23_AccumulatorCap == UpsDone => Len(Accumulator) <= 3

\* the index of the first historical line that carries the SKU
FirstInHistory(codice) ==
    CHOOSE h \in 1..Len(ups_in.historical_items) :
        /\ ups_in.historical_items[h].codice = codice
        /\ \A k \in 1..(h - 1) : ups_in.historical_items[k].codice # codice

IsFallbackRow(i) == TraceRows[i].selection_reason = "historical_fallback"

IsRestockRow(i) == TraceRows[i].selection_reason = "current_stock_available"

\* a line of the current order with this SKU and less ordered than on hand
OrderedUnderStock(codice) ==
    \E k \in 1..Len(ups_in.current_items) :
        /\ ups_in.current_items[k].codice = codice
        /\ codice \in DOMAIN ups_in.env.stock
        /\ UpsArith["<", ups_in.current_items[k].qty, ups_in.env.stock[codice].disp]

\* C25: a fallback row is a SKU of the history that is not in the current
\* order, and fallback rows come in the order their SKUs first occur in the
\* history; a restock row is a SKU of the current order with more on hand
\* than ordered
C25_StageConditions ==
    UpsOk =>
        \A i \in 1..Len(TraceRows) :
            /\ IsFallbackRow(i) =>
                  /\ TraceRows[i].sku \in Codes(ups_in.historical_items)
                  /\ TraceRows[i].sku \notin Codes(ups_in.current_items)
                  /\ \A j \in (i + 1)..Len(TraceRows) :
                        IsFallbackRow(j) =>
                            FirstInHistory(TraceRows[i].sku) < FirstInHistory(TraceRows[j].sku)
            /\ IsRestockRow(i) => OrderedUnderStock(TraceRows[i].sku)

\* a call that returned a restock row and fallback rows while a line of the
\* history carried a SKU of the current order
C25_Witness ==
    /\ UpsOk
    /\ \E i \in 1..Len(TraceRows) : IsRestockRow(i)
    /\ \E i \in 1..Len(TraceRows) : IsFallbackRow(i)
    /\ Codes(ups_in.historical_items) \cap Codes(ups_in.current_items) # {}

(***************************************************************************)
(* Properties of single functions (under SpecFn)                           *)
(***************************************************************************)
FnDone == fn_out # None

RoundDone == FnDone /\ fn_in.fn = "round_up_to_step"

PositiveStep == ~IsNone(fn_in.step) /\ Binary64[">", Val(fn_in.step), F(0)]

\* C11: for a positive step round_up_to_step returns a value that is not
\* below the value it was given, and for a step that is None or not positive
\* it returns the value unchanged
C11_RoundNeverBelowValue ==
    RoundDone =>
        IF PositiveStep THEN Binary64["<=", fn_in.value, Val(fn_out)]
        ELSE Val(fn_out) = fn_in.value

AvailableDone == FnDone /\ fn_in.fn = "is_available"

OnHand == fn_in.stock_item.disp.n > 0

Arriving == fn_in.stock_item.disp_in_arrivo.n > 0 /\ fn_in.stock_item.data_arrivo # ""

\* C13: under DISPONIBILE and IN ARRIVO an item is available exactly when
\* its quantity on hand is positive, with no date; under PROGRAMMATO it is
\* available with no date when the quantity on hand is positive, otherwise
\* available with its arrival date exactly when the arriving quantity is
\* positive and the date is not empty, otherwise unavailable
C13_Availability ==
    AvailableDone =>
        IF fn_in.causale = "PROGRAMMATO" /\ ~OnHand
        THEN Val(fn_out) = [available |-> Arriving,
                            date |-> IF Arriving THEN Some(fn_in.stock_item.data_arrivo)
                                     ELSE None]
        ELSE Val(fn_out) = [available |-> OnHand, date |-> None]

\* a scheduled order for an item out of stock that is arriving: available,
\* with the arrival date
C13_Witness ==
    /\ AvailableDone
    /\ fn_in.causale = "PROGRAMMATO"
    /\ ~OnHand
    /\ Arriving
    /\ Val(fn_out) = [available |-> TRUE, date |-> Some("2026-01-10")]

MapDone == FnDone /\ fn_in.fn = "map_macro_category"

\* the configured rule j of entry i is found in the normalized text
RuleFound(i, j) ==
    Contains(normalize_text(fn_in.raw_category), normalize_text(fn_in.mapping[i][2][j]))

\* entry i of the mapping is the first one in file order with a rule found
FirstRuleEntry(i) ==
    /\ \E j \in 1..Len(fn_in.mapping[i][2]) : RuleFound(i, j)
    /\ \A k \in 1..(i - 1) : \A j \in 1..Len(fn_in.mapping[k][2]) : ~RuleFound(k, j)

AnyRuleFound ==
    \E i \in 1..Len(fn_in.mapping) : \E j \in 1..Len(fn_in.mapping[i][2]) : RuleFound(i, j)

TokenFound(i) == Contains(normalize_text(fn_in.raw_category), token_map[i][1])

FirstToken(i) == TokenFound(i) /\ \A k \in 1..(i - 1) : ~TokenFound(k)

AnyTokenFound == \E i \in 1..Len(token_map) : TokenFound(i)

\* C27: map_macro_category returns the macro of the first mapping entry, in
\* file order, with a rule found in the normalized text; only when no rule is
\* found, the macro of the first built-in token found in it; and UNKNOWN
\* exactly when neither a rule nor a token is found
C27_RulesBeforeTokens ==
    MapDone =>
        /\ \A i \in 1..Len(fn_in.mapping) :
              FirstRuleEntry(i) => Val(fn_out) = fn_in.mapping[i][1]
        /\ ~AnyRuleFound =>
              \A i \in 1..Len(token_map) : FirstToken(i) => Val(fn_out) = token_map[i][2]
        /\ Val(fn_out) = "UNKNOWN" <=> ~AnyRuleFound /\ ~AnyTokenFound

\* a text in which a rule of the second mapping entry and a built-in token of
\* another macro are both found: the rule's macro is returned
C27_Witness ==
    /\ MapDone
    /\ Len(fn_in.mapping) >= 2
    /\ ~FirstRuleEntry(1)
    /\ FirstRuleEntry(2)
    /\ AnyTokenFound
    /\ \A i \in 1..Len(token_map) : FirstToken(i) => token_map[i][2] # fn_in.mapping[2][1]
    /\ Val(fn_out) = fn_in.mapping[2][1]

(***************************************************************************)
(* Properties of calls in sequence (under SpecCalls)                       *)
(***************************************************************************)
SameInputs(i, j) == calls[i].fn = calls[j].fn /\ calls[i].args = calls[j].args

FailedComputeStep ==
    /\ requests' = requests + 1
    /\ response'.route \in {"/api/compute", "/api/recalc"}
    /\ response'.status # 200

\* C5: a compute or recalc request that fails returns no rows and leaves the
\* stored upsell rows, pricing rows, trace, validation and warnings exactly
\* as they were before the request
C5_FailedComputeKeepsResults ==
    [][FailedComputeStep =>
          /\ response'.rows = <<>>
          /\ State'.upsell_rows = State.upsell_rows
          /\ State'.pricing_rows = State.pricing_rows
          /\ State'.trace = State.trace
          /\ State'.validation = State.validation
          /\ State'.warnings = State.warnings]_vars

\* the rows the selector had accepted when the computation over the stored
\* inputs stopped
AcceptedSoFar ==
    run_stages(load_current_items(State), load_orders(State.histories),
               EngineEnv(State, Val(selected_client(State))), Exact).suggestions

\* a recalc that stopped on the unknown category of an added promo line after
\* the selector had accepted rows, with the rows of the last good computation
\* still stored
C5_Witness ==
    /\ response.route = "/api/recalc"
    /\ response.status = 500
    /\ response.error = "Errore recalcolo: Categoria non riconosciuta: Varie"
    /\ State.upsell_rows # <<>>
    /\ State.trace # EmptyDict
    /\ AcceptedSoFar # <<>>
    /\ AcceptedSoFar # State.upsell_rows

\* the lines of the order file and of the history files of the quote
OrderLines == IF IsNone(State.current_order) THEN <<>> ELSE load_orders(State.current_order)

HistoryLines == load_orders(State.histories)

AltSuggestions == State.alt_suggestions

\* the stock row of a suggestion carries a promo price > 0
IsPromoSku(codice) ==
    \E i \in 1..Len(State.stock) :
        /\ State.stock[i].codice = codice
        /\ ~IsNone(State.stock[i].prezzo_alt)
        /\ FLt(F(0), Val(State.stock[i].prezzo_alt))

\* C18: every stored promo suggestion is a stock item with a promo price
\* > 0 whose SKU is neither on a line of the current order nor on a line of
\* the historical orders
C18_AltOutsideQuote ==
    \A i \in 1..Len(AltSuggestions) :
        /\ IsPromoSku(AltSuggestions[i].codice)
        /\ AltSuggestions[i].codice \notin Codes(OrderLines)
        /\ AltSuggestions[i].codice \notin Codes(HistoryLines)

ComputingRoutes == {"/api/compute", "/api/recalc", "/api/alt/add"}

\* a promo SKU was added to the quote by this step
AltAdded == response'.route = "/api/alt/add" /\ response'.status = 200

\* C19: a promo SKU added to a quote takes no row away: every stored
\* selector row is still stored after an accepted /api/alt/add; and a
\* computation that succeeds with alt_mode off stores no promo suggestion
C19_AltIsAdditive ==
    [][/\ AltAdded => Codes(State.upsell_rows) \subseteq Codes(State'.upsell_rows)
       /\ (/\ response'.route \in ComputingRoutes
           /\ response'.status = 200
           /\ ~State'.alt_mode) => State'.alt_suggestions = <<>>]_vars

(***************************************************************************)
(* Properties of the export (under SpecExport)                             *)
(***************************************************************************)
ExportStep == requests' = requests + 1 /\ response'.route = "/api/export"

\* the stored rows, validation and override errors allow an export
Exportable ==
    /\ State.upsell_rows # <<>>
    /\ State.validation.ok
    /\ State.ric_override_errors = <<>>

\* C20: /api/export writes the quote only when the stored row list is not
\* empty, the stored validation is ok and the stored override error list
\* is empty; otherwise it answers with an error and the output directory is
\* as it was
C20_ExportBlocked ==
    [][ExportStep =>
          /\ response'.status = 200 =>
                /\ Exportable
                /\ OUTPUT_DIR' = Some(export_excel(State.upsell_rows,
                                                   Val(selected_client(State)),
                                                   Val(State.current_order)))
          /\ ~Exportable => response'.status = 400 /\ response'.error # ""
                             /\ OUTPUT_DIR' = OUTPUT_DIR
          /\ response'.status # 200 => OUTPUT_DIR' = OUTPUT_DIR
          /\ State' = State]_vars

\* an export refused for a stored row priced under its minimum
C20_Witness ==
    /\ response.route = "/api/export"
    /\ response.status = 400
    /\ response.error = "Correggi le righe con errore prima dell'export."
    /\ State.upsell_rows # <<>>
    /\ ~State.validation.ok
    /\ State.ric_override_errors = <<>>

(***************************************************************************)
(* Properties of the policy editor (under SpecEdit)                        *)
(***************************************************************************)
\* the (macro, price-list key) pairs of an override table
EntriesOf(overrides) ==
    {e \in (DOMAIN overrides) \X UNION {DOMAIN overrides[m] : m \in DOMAIN overrides} :
        e[2] \in DOMAIN overrides[e[1]]}

NoDefaults(e) == e[1] \notin DOMAIN SCONTI \/ e[2] \notin DOMAIN SCONTI[e[1]]

\* the least floor an override of the pair may set
MinimumFloor(e) == FMax(ABSOLUTE_MIN_MARKUP, Get(SCONTI[e[1]][e[2]], "ric", ABSOLUTE_MIN_MARKUP))

\* the floor of the entry: its own, or the least one when it sets none
FloorOfEntry(overrides, e) == Get(overrides[e[1]][e[2]], "ric_floor", MinimumFloor(e))

\* the entry has no defaults, a floor under the minimum or a baseline under
\* its floor
InvalidEntry(overrides, e) ==
    \/ NoDefaults(e)
    \/ FLt(FloorOfEntry(overrides, e), MinimumFloor(e))
    \/ /\ "ric_base" \in DOMAIN overrides[e[1]][e[2]]
       /\ FLt(overrides[e[1]][e[2]].ric_base, FloorOfEntry(overrides, e))

InvalidEntries(overrides) == {e \in EntriesOf(overrides) : InvalidEntry(overrides, e)}

ErrorNames(errors, e) ==
    \E i \in 1..Len(errors) : Contains(errors[i], e[1] \o "/" \o e[2])

\* the step is the reply of /api/ric/save_overrides to these rows
SaveStep(incoming) ==
    /\ requests' = requests + 1
    /\ State' = api_ric_save_overrides(State, incoming).state
    /\ response' = api_ric_save_overrides(State, incoming).response

\* what validate_ric_overrides says of a table, and what the route does
\* with the table the rows build
ValidatedAndStored(incoming, table) ==
    LET errors == validate_ric_overrides(SCONTI, table)
    IN  /\ \A e \in InvalidEntries(table) : ErrorNames(errors, e)
        /\ InvalidEntries(table) = {} => errors = <<>>
        /\ IF InvalidEntries(table) # {}
           THEN /\ response'.status = 400
                /\ response'.error = "override_invalid"
                /\ State' = State
           ELSE /\ response'.status = 200
                /\ State'.ric_overrides = table

\* C21: validate_ric_overrides reports an error for every override entry
\* with a floor under max(11, default floor), a baseline under its floor or
\* no defaults of its pair, and none otherwise; /api/ric/save_overrides
\* rejects a submission with such an entry and leaves the stored table as it
\* was
C21_SaveRejectsInvalid ==
    [][\A incoming \in OverrideRowsSent :
          SaveStep(incoming) /\ ~overrides_of_rows(incoming, EmptyDict).raised
              => ValidatedAndStored(incoming, overrides_of_rows(incoming, EmptyDict).overrides)]_vars

\* a submission was rejected while a table saved before it is stored, and
\* the stored table has no error
C21_Witness ==
    /\ response.route = "/api/ric/save_overrides"
    /\ response.status = 400
    /\ State.ric_overrides = ("ORIGINALI" :> ("RIV" :> [ric_base |-> F(35), ric_floor |-> F(28)]))
    /\ State.ric_override_errors = <<>>

StoredExceptions == State.ric_item_exceptions

KeyOf(item) == <<normalize_sku(item.sku), item.scope>>

\* C29: after any sequence of add, update, delete and reset_all requests
\* from an empty list, no two stored exceptions have the same normalized SKU
\* and scope, and every stored exception has a baseline of 11 or more
C29_UniqueKeysAndMinimum ==
    /\ \A i, j \in 1..Len(StoredExceptions) :
          i # j => KeyOf(StoredExceptions[i]) # KeyOf(StoredExceptions[j])
    /\ \A i \in 1..Len(StoredExceptions) :
          FLe(ABSOLUTE_MIN_MARKUP, StoredExceptions[i].ric_base_override)

(***************************************************************************)
(* Properties of the minimum-price query (under SpecExport)                *)
(***************************************************************************)
\* the last reply is a minimum-price reply for the SKU of stored row i, a row
\* computed on the price list of the selected client and priced by the
\* policy, not at its promo price
QueriedRow(i) ==
    /\ response.route = "/api/min_price"
    /\ State.trace.listino_key = ListinoKey(Val(selected_client(State)).listino)
    /\ State.upsell_rows[i].codice = response.sku
    /\ ~IsNone(State.upsell_rows[i].min_unit_price)

\* the values of the reply are those of the row
AgreesWithRow(payload, row) ==
    /\ ~Binary64["!=", payload.min_unit_price, Val(row.min_unit_price)]
    /\ ~Binary64["!=", payload.required_ric, Val(row.required_ric)]
    /\ ~Binary64["!=", payload.customer_base_price, row.customer_base_price]
    /\ payload.ric_base_source = row.ric_base_source
    /\ payload.ric_floor_source = row.ric_floor_source

\* C30: a minimum-price query for the SKU of a row that compute_upsell
\* returned in this server state, not priced at its promo price, succeeds and
\* returns the floor price, the required markup, the baseline price and the
\* two sources of that row
C30_MinPriceAgreesWithRow ==
    \A i \in 1..Len(State.upsell_rows) :
        QueriedRow(i) =>
            /\ response.status = 200
            /\ AgreesWithRow(Val(response.payload), State.upsell_rows[i])

(***************************************************************************)
(* Properties of the stored results (under SpecExport)                     *)
(***************************************************************************)
\* the stored rows were computed on the price list of the client now
\* selected and under the cause code now set
ResultsAreCurrent(st) ==
    st.upsell_rows # <<>> =>
        /\ ~IsNone(selected_client(st))
        /\ st.trace.listino_key = ListinoKey(Val(selected_client(st)).listino)
        /\ st.trace.causale = st.causale

\* the step writes preventivo.xlsx
WritesExport ==
    /\ response'.route = "/api/export"
    /\ response'.status = 200
    /\ requests' = requests + 1

\* C28: the stored rows, when there are any, were computed for the client,
\* order, histories and cause code now selected, every request that changes
\* one of them clearing the rows; an export names the client its rows were
\* priced for
C28_ResultsNeverStale ==
    [][/\ ResultsAreCurrent(State')
       /\ WritesExport =>
              ListinoKey(Val(OUTPUT_DIR').listino) = State.trace.listino_key]_vars

====
